---- MODULE Spec2Model ----
(***************************************************************************)
(* Static route discovery of webext-messaging's build plugin: the          *)
(* expression resolver, the route extractor and the spread-aware           *)
(* aggregator of the AST parser, applied to bounded source files.          *)
(*                                                                         *)
(* A syntax node is a record of one shape for every kind.  A node's text   *)
(* (ts-morph getText) is the sequence of its tokens, so that two nodes     *)
(* have the same text exactly when they are written the same way.          *)
(***************************************************************************)
EXTENDS Integers, Sequences, FiniteSets, TLC

VARIABLES sourceFile, filePath, node, layers, target, pc, resolved, result

\* The Builder: its state, the files on disk, the Global Route Table and its
\* reverse index, the rendered text, the subscribers, the file events in
\* flight, and the record of the event handled last.
VARIABLES state, disk, scans, table, reverseIndex, cachedText, fresh,
          subscribers, jobs, gen, applying, nEvents,
          before, last, scanned, invoked, appliedGen, lastScan

pvars == <<sourceFile, filePath, node, layers, target, pc, resolved, result>>

bvars == <<state, disk, scans, table, reverseIndex, cachedText, fresh,
           subscribers, jobs, gen, applying, nEvents,
           before, last, scanned, invoked, appliedGen, lastScan>>

\* The router of one context: its routes and options, the enabled flag of
\* createRouterCore, the listeners registered on the message event, and the
\* message being handled with what was sent back for it.
VARIABLES routerKind, routerRoutes, options, enabled, listeners, apiCalls,
          lastChange, message, responses, handlerPromise, forwarded, handled

rvars == <<routerKind, routerRoutes, options, enabled, listeners, apiCalls,
           lastChange, message, responses, handlerPromise, forwarded, handled>>

\* The sender of one context: its options, the port's connection state,
\* the requests waiting for a response with their timers, the promise each
\* call returned, what each call was given and what it put on the wire
VARIABLES senderKind, senderOptions, timeout, connected, closedIntentionally,
          portState, pendingRequests, timers, promises, calls, posted,
          onErrorCalls, nextId, portListeners

\* core.ts: the last message error, one for the whole context
VARIABLES lastError

sendervars == <<senderKind, senderOptions, timeout, connected, closedIntentionally,
                portState, pendingRequests, timers, promises, calls, posted,
                onErrorCalls, nextId, portListeners>>

svars == <<sendervars, lastError>>

vars == <<pvars, bvars, rvars, svars>>

MaxRequests == 2

\* File events the watcher delivers in one run.
MaxEvents == 2

\* Call-stack frames the host allows to the recursive functions; one frame
\* more raises RangeError (ovf).
StackLimit == 14

\* Layers of aliasing wrapped around a routes literal.
MaxLayers == 2

----------------------------------------------------------------------------
\* Syntax nodes

MkNode(kind, name, kids, props, params, ret) ==
  [kind |-> kind, name |-> name, kids |-> kids, props |-> props,
   params |-> params, ret |-> ret]

undefined == MkNode("undefined", "", <<>>, <<>>, <<>>, "")

Identifier(name) == MkNode("Identifier", name, <<>>, <<>>, <<>>, "")

\* callee(args): kids[1] is the callee expression, the rest the arguments
CallExpression(callee, args) ==
  MkNode("CallExpression", "", <<callee>> \o args, <<>>, <<>>, "")

\* object.name
PropertyAccessExpression(object, name) ==
  MkNode("PropertyAccessExpression", name, <<object>>, <<>>, <<>>, "")

ObjectLiteralExpression(props) ==
  MkNode("ObjectLiteralExpression", "", <<>>, props, <<>>, "")

\* (params) => body, where ret is the type the checker infers for the body
ArrowFunction(params, ret) ==
  MkNode("ArrowFunction", "", <<>>, <<>>, params, ret)

\* function (params) { body }
FunctionExpression(params, ret) ==
  MkNode("FunctionExpression", "", <<>>, <<>>, params, ret)

\* name(params) { body } as the value of a method shorthand
MethodDeclaration(params, ret) ==
  MkNode("MethodDeclaration", "", <<>>, <<>>, params, ret)

\* any other expression: a number, a conditional, ...
NumericLiteral(text) == MkNode("NumericLiteral", text, <<>>, <<>>, <<>>, "")

\* Object literal elements.  key is the text of the name node, one element
\* per character group: a quote is an element of its own.
MkProp(kind, keyKind, key, value) ==
  [kind |-> kind, keyKind |-> keyKind, key |-> key, value |-> value]

PropertyAssignment(keyKind, key, value) ==
  MkProp("PropertyAssignment", keyKind, key, value)

MethodProp(keyKind, key, params, ret) ==
  MkProp("MethodDeclaration", keyKind, key, MethodDeclaration(params, ret))

SpreadAssignment(expr) == MkProp("SpreadAssignment", "none", <<>>, expr)

ShorthandPropertyAssignment(name) ==
  MkProp("ShorthandPropertyAssignment", "Identifier", <<name>>, undefined)

isObjectLiteralExpression(n) == n.kind = "ObjectLiteralExpression"
isIdentifier(n) == n.kind = "Identifier"
isCallExpression(n) == n.kind = "CallExpression"
isPropertyAccessExpression(n) == n.kind = "PropertyAccessExpression"
isArrowFunction(n) == n.kind = "ArrowFunction"
isFunctionExpression(n) == n.kind = "FunctionExpression"
isMethodDeclaration(p) == p.kind = "MethodDeclaration"
isPropertyAssignment(p) == p.kind = "PropertyAssignment"
isSpreadAssignment(p) == p.kind = "SpreadAssignment"

\* JavaScript truthiness of a Node | undefined
Truthy(n) == n.kind # "undefined"

----------------------------------------------------------------------------
\* Node text

RECURSIVE getText(_), JoinText(_, _, _), PropsText(_, _)

\* texts of ns[i..], separated by commas
JoinText(ns, i, sep) ==
  IF i > Len(ns) THEN <<>>
  ELSE getText(ns[i]) \o (IF i < Len(ns) THEN <<sep>> ELSE <<>>)
         \o JoinText(ns, i + 1, sep)

ParamsText(params) ==
  IF Len(params) = 0 THEN <<>>
  ELSE IF Len(params) = 1 THEN <<params[1]>>
  ELSE <<params[1], ",", params[2]>>

PropText(p) ==
  IF p.kind = "MethodDeclaration"
    THEN p.key \o <<"(">> \o ParamsText(p.value.params) \o <<")", "{", p.value.ret, "}">>
  ELSE IF p.kind = "PropertyAssignment"
    THEN p.key \o <<":">> \o getText(p.value)
  ELSE IF p.kind = "SpreadAssignment"
    THEN <<"...">> \o getText(p.value)
  ELSE p.key

PropsText(ps, i) ==
  IF i > Len(ps) THEN <<>>
  ELSE PropText(ps[i]) \o (IF i < Len(ps) THEN <<",">> ELSE <<>>)
         \o PropsText(ps, i + 1)

getText(n) ==
  IF n.kind = "Identifier" THEN <<n.name>>
  ELSE IF n.kind = "NumericLiteral" THEN <<n.name>>
  ELSE IF n.kind = "PropertyAccessExpression"
    THEN getText(n.kids[1]) \o <<".", n.name>>
  ELSE IF n.kind = "CallExpression"
    THEN getText(n.kids[1]) \o <<"(">> \o JoinText(Tail(n.kids), 1, ",") \o <<")">>
  ELSE IF n.kind = "ObjectLiteralExpression"
    THEN <<"{">> \o PropsText(n.props, 1) \o <<"}">>
  ELSE IF n.kind = "ArrowFunction"
    THEN <<"(">> \o ParamsText(n.params) \o <<")", "=>", n.ret>>
  ELSE IF n.kind = "FunctionExpression"
    THEN <<"function", "(">> \o ParamsText(n.params) \o <<")", "{", n.ret, "}">>
  ELSE <<>>

----------------------------------------------------------------------------
\* Route extractor

QuoteChars == {"'", "\""}

\* routePath.replace(/^['"]|['"]$/g, ''): one quote off the start, then one
\* quote off the end of what is left
StripQuotes(routePath) ==
  LET s1 == IF Len(routePath) > 0 /\ routePath[1] \in QuoteChars
              THEN Tail(routePath) ELSE routePath
  IN IF Len(s1) > 0 /\ s1[Len(s1)] \in QuoteChars
       THEN SubSeq(s1, 1, Len(s1) - 1) ELSE s1

RouteInfo(path, file, paramText, returnType) ==
  [path |-> path, file |-> file, paramText |-> paramText, returnType |-> returnType]

\* the function node the forEach callback accepts for prop, or undefined
\* when the callback returns early
functionNode(prop) ==
  IF isMethodDeclaration(prop) THEN prop.value
  ELSE IF isPropertyAssignment(prop)
    THEN IF ~Truthy(prop.value)
            \/ (~isArrowFunction(prop.value) /\ ~isFunctionExpression(prop.value))
           THEN undefined
           ELSE prop.value
  ELSE undefined

\* the RouteInfo pushed for an accepted property
routeOfProp(prop, filePath_) ==
  LET fn == functionNode(prop) IN
  RouteInfo(StripQuotes(prop.key), filePath_,
            IF Len(fn.params) > 0 THEN fn.params[1] ELSE "",
            fn.ret)

RECURSIVE extractPropsUntilSkipped(_, _, _)
\* an extractor whose early return leaves the whole loop
extractPropsUntilSkipped(props, i, filePath_) ==
  IF i > Len(props) \/ ~Truthy(functionNode(props[i])) THEN <<>>
  ELSE <<routeOfProp(props[i], filePath_)>>
       \o extractPropsUntilSkipped(props, i + 1, filePath_)

RECURSIVE extractProps(_, _, _)
extractProps(props, i, filePath_) ==
  IF i > Len(props) THEN <<>>
  ELSE (IF Truthy(functionNode(props[i]))
          THEN <<routeOfProp(props[i], filePath_)>> ELSE <<>>)
       \o extractProps(props, i + 1, filePath_)

extractRoutesFromObjectLiteral(objLiteral, filePath_) ==
  IF ~isObjectLiteralExpression(objLiteral) THEN <<>>
  ELSE extractProps(objLiteral.props, 1, filePath_)

----------------------------------------------------------------------------
\* Expression resolver.  The visited set of the source is one mutable Set
\* shared by the recursive calls: every function takes it and returns it.
\* depth counts the frames of resolve/resolveNodeRecursively on the stack.

Res(n, visited, ovf) == [node |-> n, visited |-> visited, ovf |-> ovf]

Min(S) == CHOOSE x \in S : \A y \in S : x <= y

\* declarations of varName that have an initializer
VarHits(sf, varName) ==
  {i \in 1..Len(sf.vars) :
     sf.vars[i].name = varName /\ Truthy(sf.vars[i].initializer)}

\* expressions of the return statements of every function named funcName,
\* in source order (a bare `return` has the expression undefined)
RECURSIVE returnExprs(_, _, _)
returnExprs(funcs, i, funcName) ==
  IF i > Len(funcs) THEN <<>>
  ELSE (IF funcs[i].name = funcName THEN funcs[i].returns ELSE <<>>)
       \o returnExprs(funcs, i + 1, funcName)

\* ObjectLiteralExpression.getProperty(name): the first element whose name
\* text is name
getProperty(obj, propertyName) ==
  LET hits == {i \in 1..Len(obj.props) :
                 obj.props[i].kind # "SpreadAssignment"
                 /\ obj.props[i].key = <<propertyName>>}
  IN IF hits = {} THEN MkProp("undefined", "none", <<>>, undefined)
     ELSE obj.props[Min(hits)]

\* the names compared with funcName, as texts
PassThrough == {<<"defineMessageRoutes">>, <<"Object", ".", "assign">>, <<"merge">>}

RECURSIVE resolveNodeRecursively(_, _, _, _), resolveReturns(_, _, _, _, _)

\* the loops over return statements: the first truthy resolution is returned
resolveReturns(exprs, i, sf, visited, depth) ==
  IF i > Len(exprs) THEN Res(undefined, visited, FALSE)
  ELSE IF ~Truthy(exprs[i]) THEN resolveReturns(exprs, i + 1, sf, visited, depth)
  ELSE LET r == resolveNodeRecursively(exprs[i], sf, visited, depth + 1) IN
       IF r.ovf \/ Truthy(r.node) THEN r
       ELSE resolveReturns(exprs, i + 1, sf, r.visited, depth)

resolveIdentifier(identifier, sf, visited, depth) ==
  IF ~isIdentifier(identifier) THEN Res(undefined, visited, FALSE)
  ELSE LET varName == identifier.name
           hits == VarHits(sf, varName)
       IN IF hits # {}
            THEN resolveNodeRecursively(sf.vars[Min(hits)].initializer, sf, visited, depth + 1)
            ELSE resolveReturns(returnExprs(sf.funcs, 1, varName), 1, sf, visited, depth)

resolveFunctionCall(callExpr, sf, visited, depth) ==
  IF ~isCallExpression(callExpr) THEN Res(undefined, visited, FALSE)
  ELSE LET expression == callExpr.kids[1]
           args == Tail(callExpr.kids)
       IN IF ~isIdentifier(expression) THEN Res(undefined, visited, FALSE)
          ELSE IF getText(expression) \in PassThrough /\ Len(args) > 0
            THEN resolveNodeRecursively(args[1], sf, visited, depth + 1)
          ELSE resolveReturns(returnExprs(sf.funcs, 1, expression.name), 1,
                              sf, visited, depth)

resolvePropertyAccess(propAccess, sf, visited, depth) ==
  IF ~isPropertyAccessExpression(propAccess) THEN Res(undefined, visited, FALSE)
  ELSE LET object == propAccess.kids[1]
           propertyName == propAccess.name
           resolvedObject == resolveNodeRecursively(object, sf, visited, depth + 1)
       IN IF resolvedObject.ovf THEN resolvedObject
          ELSE IF Truthy(resolvedObject.node)
                  /\ isObjectLiteralExpression(resolvedObject.node)
            THEN LET property == getProperty(resolvedObject.node, propertyName) IN
                 IF isPropertyAssignment(property) /\ Truthy(property.value)
                   THEN resolveNodeRecursively(property.value, sf,
                                               resolvedObject.visited, depth + 1)
                   ELSE Res(undefined, resolvedObject.visited, FALSE)
          ELSE Res(undefined, resolvedObject.visited, FALSE)

\* resolveNodeRecursively without the test of visited
resolveNodeRecursivelyUnguarded(n, sf, visited, depth) ==
  LET nodeText == getText(n) IN
  IF depth > StackLimit THEN Res(undefined, visited, TRUE)
  ELSE LET v == visited \cup {nodeText} IN
       IF isObjectLiteralExpression(n) THEN Res(n, v, FALSE)
       ELSE IF isIdentifier(n) THEN resolveIdentifier(n, sf, v, depth)
       ELSE IF isCallExpression(n) THEN resolveFunctionCall(n, sf, v, depth)
       ELSE IF isPropertyAccessExpression(n) THEN resolvePropertyAccess(n, sf, v, depth)
       ELSE Res(undefined, v, FALSE)

resolveNodeRecursively(n, sf, visited, depth) ==
  LET nodeText == getText(n) IN
  IF depth > StackLimit THEN Res(undefined, visited, TRUE)
  ELSE IF nodeText \in visited THEN Res(undefined, visited, FALSE)
  ELSE LET v == visited \cup {nodeText} IN
       IF isObjectLiteralExpression(n) THEN Res(n, v, FALSE)
       ELSE IF isIdentifier(n) THEN resolveIdentifier(n, sf, v, depth)
       ELSE IF isCallExpression(n) THEN resolveFunctionCall(n, sf, v, depth)
       ELSE IF isPropertyAccessExpression(n) THEN resolvePropertyAccess(n, sf, v, depth)
       ELSE Res(undefined, v, FALSE)

\* the inner function resolve of resolveVariableToObjectLiteral
resolve(current, sf, visited, depth) ==
  LET nodeText == getText(current) IN
  IF depth > StackLimit THEN Res(undefined, visited, TRUE)
  ELSE IF nodeText \in visited THEN Res(undefined, visited, FALSE)
  ELSE LET v == visited \cup {nodeText} IN
       IF isObjectLiteralExpression(current) THEN Res(current, v, FALSE)
       ELSE IF isIdentifier(current) THEN resolveIdentifier(current, sf, v, depth)
       ELSE IF isCallExpression(current) THEN resolveFunctionCall(current, sf, v, depth)
       ELSE IF isPropertyAccessExpression(current)
         THEN resolvePropertyAccess(current, sf, v, depth)
       ELSE Res(undefined, v, FALSE)

resolveVariableToObjectLiteral(n, sf) == resolve(n, sf, {}, 1)

----------------------------------------------------------------------------
\* Spread-aware aggregator.  The state threaded through the recursion is
\* allRoutes and visited of the source, the literals that passed the guard
\* in the order they passed it (log), and the overflow flag.

Agg(routes, visited, log, ovf) ==
  [routes |-> routes, visited |-> visited, log |-> log, ovf |-> ovf]

RECURSIVE extractFromObject(_, _, _, _, _), forEachProp(_, _, _, _, _, _)

\* forEachProp that gives up on the literal's remaining elements at the
\* first spread that does not resolve
forEachPropAbortsOnUnresolved(props, i, sf, filePath_, st, depth) ==
  IF i > Len(props) \/ st.ovf THEN st
  ELSE IF isSpreadAssignment(props[i])
    THEN LET r == resolveVariableToObjectLiteral(props[i].value, sf)
         IN IF r.ovf THEN [st EXCEPT !.ovf = TRUE]
            ELSE IF Truthy(r.node)
              THEN forEachProp(props, i + 1, sf, filePath_,
                               extractFromObject(r.node, sf, filePath_, st, depth + 1),
                               depth)
              ELSE st
  ELSE forEachProp(props, i + 1, sf, filePath_, st, depth)

\* obj.getProperties().forEach(...) from element i on
forEachProp(props, i, sf, filePath_, st, depth) ==
  IF i > Len(props) \/ st.ovf THEN st
  ELSE IF isSpreadAssignment(props[i])
    THEN LET spreadExpr == props[i].value
             r == resolveVariableToObjectLiteral(spreadExpr, sf)
         IN IF r.ovf THEN [st EXCEPT !.ovf = TRUE]
            ELSE IF Truthy(r.node)
              THEN forEachProp(props, i + 1, sf, filePath_,
                               extractFromObject(r.node, sf, filePath_, st, depth + 1),
                               depth)
              ELSE forEachProp(props, i + 1, sf, filePath_, st, depth)
  ELSE forEachProp(props, i + 1, sf, filePath_, st, depth)

\* extractFromObject without the test of visited
extractFromObjectUnguarded(obj, sf, filePath_, st, depth) ==
  IF depth > StackLimit THEN [st EXCEPT !.ovf = TRUE]
  ELSE IF ~isObjectLiteralExpression(obj) THEN st
  ELSE LET st1 == [st EXCEPT !.visited = @ \cup {getText(obj)},
                             !.log = Append(@, obj)]
           st2 == forEachProp(obj.props, 1, sf, filePath_, st1, depth)
       IN IF st2.ovf THEN st2
          ELSE [st2 EXCEPT !.routes = @ \o extractRoutesFromObjectLiteral(obj, filePath_)]

extractFromObject(obj, sf, filePath_, st, depth) ==
  IF depth > StackLimit THEN [st EXCEPT !.ovf = TRUE]
  ELSE IF ~isObjectLiteralExpression(obj) THEN st
  ELSE IF getText(obj) \in st.visited THEN st
  ELSE LET st1 == [st EXCEPT !.visited = @ \cup {getText(obj)},
                             !.log = Append(@, obj)]
           st2 == forEachProp(obj.props, 1, sf, filePath_, st1, depth)
       IN IF st2.ovf THEN st2
          ELSE [st2 EXCEPT !.routes = @ \o extractRoutesFromObjectLiteral(obj, filePath_)]

\* extractRoutesWithSpreads that attributes the routes to the file the
\* literals are written in
extractRoutesWithSpreadsHomeFile(objLiteral, sf, filePath_) ==
  IF ~isObjectLiteralExpression(objLiteral) THEN Agg(<<>>, {}, <<>>, FALSE)
  ELSE extractFromObject(objLiteral, sf, sf.path, Agg(<<>>, {}, <<>>, FALSE), 1)

extractRoutesWithSpreads(objLiteral, sf, filePath_) ==
  IF ~isObjectLiteralExpression(objLiteral) THEN Agg(<<>>, {}, <<>>, FALSE)
  ELSE extractFromObject(objLiteral, sf, filePath_, Agg(<<>>, {}, <<>>, FALSE), 1)

----------------------------------------------------------------------------
\* Source files under scan

F1 == ArrowFunction(<<>>, "number")
F2 == ArrowFunction(<<"p: string">>, "Promise<void>")
F3 == FunctionExpression(<<"q: number", "s">>, "string")

Id(name) == Identifier(name)
Key(name) == <<name>>
Quoted(q, name) == IF name = "" THEN <<q, q>> ELSE <<q, name, q>>

Own(name, fn) == PropertyAssignment("Identifier", Key(name), fn)
Spread(expr) == SpreadAssignment(expr)
Lit(props) == ObjectLiteralExpression(props)
Call(name, args) == CallExpression(Id(name), args)
ObjectAssign(args) ==
  CallExpression(PropertyAccessExpression(Id("Object"), "assign"), args)

\* { x: () => 1 }
LA == Lit(<<Own("x", F1)>>)
\* { x: (p: string) => ..., y() {...} }
LB == Lit(<<Own("x", F2), MethodProp("Identifier", Key("y"), <<>>, "void")>>)
\* { 'x': function (q: number, s) {...}, "z": () => 1 }
LQ == Lit(<<PropertyAssignment("StringLiteral", Quoted("'", "x"), F3),
            PropertyAssignment("StringLiteral", Quoted("\"", "z"), F1)>>)
\* { '': () => 1, [k]: (p: string) => ..., n: 42, s, w: () => 1 }
LE == Lit(<<PropertyAssignment("StringLiteral", Quoted("'", ""), F1),
            PropertyAssignment("ComputedPropertyName", <<"[", "k", "]">>, F2),
            Own("n", NumericLiteral("42")),
            ShorthandPropertyAssignment("s"),
            Own("w", F1)>>)

\* initializers of the variables a and b
VarInits ==
  { LA, LB, Id("a"), Id("b"),
    Call("merge", <<Id("b")>>),
    Lit(<<Spread(Id("b")), Own("x", F3)>>),
    Lit(<<Spread(Id("a")), MethodProp("Identifier", Key("y"), <<"p: string">>, "void")>>),
    PropertyAccessExpression(Id("c"), "p"),
    Call("f", <<>>),
    undefined }

\* initializers of the variable c
EnclosingInits ==
  { Lit(<<Own("p", Id("b")), Own("q", NumericLiteral("42"))>>),
    Lit(<<Own("p", LB), Own("p", LA)>>),
    Lit(<<ShorthandPropertyAssignment("p"), Spread(Id("a"))>>) }

\* return statements of the function f
FuncReturns ==
  { <<LA>>,
    <<Id("a")>>,
    <<undefined, NumericLiteral("0"), Id("b")>>,
    <<Call("merge", <<Call("f", <<>>)>>), LB>> }

\* expressions handed to the resolver, the aggregator and the extractor
Inputs ==
  { Id("a"), Id("b"), Id("u"),
    PropertyAccessExpression(Id("c"), "p"),
    PropertyAccessExpression(Id("a"), "x"),
    Call("f", <<>>), Call("g", <<Id("a")>>),
    Call("merge", <<Id("a"), Id("b")>>),
    Call("defineMessageRoutes", <<Id("b")>>),
    ObjectAssign(<<Id("a")>>),
    NumericLiteral("42"),
    LQ, LE,
    Lit(<<Spread(Id("a")), Spread(Id("b")), Own("x", F3)>>),
    Lit(<<Spread(Id("a")), Spread(Id("b"))>>),
    Lit(<<Own("x", F1), Spread(Id("a"))>>),
    Lit(<<Spread(Id("u")), Spread(Id("b")), Own("x", F1)>>),
    Lit(<<Spread(Id("a")), Spread(Call("g", <<>>)),
          Spread(PropertyAccessExpression(Id("c"), "p")), Own("z", F2)>>) }

Paths == {"src/background.ts", "src/routes.ts"}

Var(name, initializer) == [name |-> name, initializer |-> initializer]
Func(name, returns) == [name |-> name, returns |-> returns]
File(path, vs, fs) == [path |-> path, vars |-> vs, funcs |-> fs]

Files ==
  { File("src/background.ts", <<Var("a", ia), Var("b", ib), Var("c", ic)>>,
         <<Func("f", rs)>>) :
      ia \in VarInits, ib \in VarInits, ic \in EnclosingInits, rs \in FuncReturns }

----------------------------------------------------------------------------
\* A routes literal behind layers of aliasing

LayerKinds == {"var", "defineMessageRoutes", "merge", "Object.assign", "prop"}

LayerName(prefix, i) ==
  IF i = 1 THEN prefix \o "1" ELSE IF i = 2 THEN prefix \o "2"
  ELSE IF i = 3 THEN prefix \o "3" ELSE prefix \o "4"

\* the expression that reaches e through one more layer (layer number i)
Wrap(kind, i, e) ==
  IF kind = "var" THEN Id(LayerName("v", i))
  ELSE IF kind = "prop" THEN PropertyAccessExpression(Id(LayerName("o", i)), "routes")
  ELSE IF kind = "Object.assign" THEN ObjectAssign(<<e>>)
  ELSE Call(kind, <<e>>)

\* the declarations layer i adds to the file
Decls(kind, i, e) ==
  IF kind = "var" THEN <<Var(LayerName("v", i), e)>>
  ELSE IF kind = "prop"
    THEN <<Var(LayerName("o", i), Lit(<<Own("routes", e)>>))>>
  ELSE <<>>

RECURSIVE ChainExpr(_, _, _), ChainDecls(_, _, _)
\* the expression after the first n layers around L
ChainExpr(ls, n, L) ==
  IF n = 0 THEN L ELSE Wrap(ls[n], n, ChainExpr(ls, n - 1, L))

ChainDecls(ls, n, L) ==
  IF n = 0 THEN <<>>
  ELSE ChainDecls(ls, n - 1, L) \o Decls(ls[n], n, ChainExpr(ls, n - 1, L))

LayerSeqs == UNION {[1..n -> LayerKinds] : n \in 0..MaxLayers}

\* routes literals at the end of the chain
Targets ==
  { LA, LQ, LE,
    Lit(<<Spread(Id("a")), Spread(Id("b")), Own("x", F3)>>),
    Lit(<<Own("x", F1), Spread(Id("b"))>>) }

ChainBases ==
  { <<Var("a", LA), Var("b", LB)>>,
    <<Var("a", Lit(<<Spread(Id("b")), Own("x", F3)>>)), Var("b", LB)>> }

----------------------------------------------------------------------------
\* The scan of one call-site

NoResult == Agg(<<>>, {}, <<>>, FALSE)

\* the files of the include set
FileF1 == "src/a.ts"
FileF2 == "src/b.ts"
ScanSet == {FileF1, FileF2}

NoEvent == [file |-> "", kind |-> "none"]
NoJob == [file |-> "", kind |-> "none", gen |-> 0, content |-> "absent"]

\* JavaScript values as far as the messaging code tells them apart
JsUndefined == [type |-> "undefined"]
JsTrue == [type |-> "boolean", bool |-> TRUE]
JsFalse == [type |-> "boolean", bool |-> FALSE]
JsString(chars) == [type |-> "string", chars |-> chars]
JsArray(items) == [type |-> "array", items |-> items]
JsError(msg) == [type |-> "error", message |-> msg]

NoMessage == [path |-> <<>>]

\* no router has been created
RouterIdle ==
  /\ routerKind = "none"
  /\ routerRoutes = <<>>
  /\ options = [enabled |-> JsUndefined, proxy |-> JsUndefined]
  /\ enabled = FALSE
  /\ listeners = 0
  /\ apiCalls = <<>>
  /\ lastChange = "none"
  /\ message = NoMessage
  /\ responses = <<>>
  /\ handlerPromise = "none"
  /\ forwarded = <<>>
  /\ handled = "none"

NoCall == [path |-> <<>>]
NoPromise == [state |-> "none"]
NoSenderOptions == [onError |-> FALSE, timeout |-> JsUndefined, targetId |-> JsUndefined]

\* no sender has been created
SenderIdle ==
  /\ senderKind = "none"
  /\ senderOptions = NoSenderOptions
  /\ timeout = 0
  /\ connected = FALSE
  /\ closedIntentionally = FALSE
  /\ portState = "none"
  /\ pendingRequests = {}
  /\ timers = {}
  /\ promises = [n \in 1..MaxRequests |-> NoPromise]
  /\ calls = [n \in 1..MaxRequests |-> NoCall]
  /\ posted = <<>>
  /\ onErrorCalls = <<>>
  /\ nextId = 1
  /\ portListeners = {}
  /\ lastError = JsUndefined

\* a Builder that has not been constructed into anything yet
BuilderIdle ==
  /\ state = "uninitialized"
  /\ disk = [f \in ScanSet |-> "absent"]
  /\ scans = [f \in ScanSet |-> <<>>]
  /\ table = <<>>
  /\ reverseIndex = [f \in ScanSet |-> {}]
  /\ cachedText = <<>>
  /\ fresh = FALSE
  /\ subscribers = {}
  /\ jobs = {}
  /\ gen = [f \in ScanSet |-> 0]
  /\ applying = NoJob
  /\ nEvents = 0
  /\ before = [table |-> <<>>, reverseIndex |-> [f \in ScanSet |-> {}]]
  /\ last = NoEvent
  /\ scanned = {}
  /\ invoked = {}
  /\ appliedGen = [f \in ScanSet |-> 0]
  /\ lastScan = [f \in ScanSet |-> <<>>]

InitFiles ==
  /\ sourceFile \in Files
  /\ filePath \in Paths
  /\ node \in Inputs
  /\ layers = <<>>
  /\ target = node
  /\ pc = "start"
  /\ resolved = Res(undefined, {}, FALSE)
  /\ result = NoResult
  /\ BuilderIdle
  /\ RouterIdle
  /\ SenderIdle

InitChains ==
  /\ target \in Targets
  /\ layers \in LayerSeqs
  /\ \E base \in ChainBases :
       sourceFile = File("src/background.ts",
                         base \o ChainDecls(layers, Len(layers), target), <<>>)
  /\ filePath \in Paths
  /\ node = ChainExpr(layers, Len(layers), target)
  /\ pc = "start"
  /\ resolved = Res(undefined, {}, FALSE)
  /\ result = NoResult
  /\ BuilderIdle
  /\ RouterIdle
  /\ SenderIdle

\* files in which the name f is declared as a function and, in some of
\* them, as a variable too
IdentVars ==
  { <<Var("b", LB)>>,
    <<Var("b", LB), Var("f", undefined)>>,
    <<Var("b", LB), Var("f", LA)>>,
    <<Var("b", LB), Var("f", NumericLiteral("0"))>>,
    <<Var("f", undefined), Var("f", Id("b")), Var("b", LB)>> }

\* return statements of f in those files
IdentReturns ==
  { <<LA>>,
    <<undefined, NumericLiteral("0"), LQ>>,
    <<PropertyAccessExpression(Id("b"), "zz"), Id("b")>>,
    <<Id("f"), LA>> }

\* the identifier f is handed to the resolver
InitIdent ==
  /\ sourceFile \in {File("src/background.ts", vs, <<Func("f", rs)>>) :
                       vs \in IdentVars, rs \in IdentReturns}
  /\ filePath = "src/background.ts"
  /\ node = Id("f")
  /\ layers = <<>>
  /\ target = node
  /\ pc = "start"
  /\ resolved = Res(undefined, {}, FALSE)
  /\ result = NoResult
  /\ BuilderIdle
  /\ RouterIdle
  /\ SenderIdle

Init == InitFiles \/ InitChains \/ InitIdent

\* the routes argument of the call-site is resolved
Resolve ==
  /\ pc = "start"
  /\ resolved' = resolveVariableToObjectLiteral(node, sourceFile)
  /\ pc' = "resolved"
  /\ UNCHANGED <<sourceFile, filePath, node, layers, target, result>>
  /\ UNCHANGED <<bvars, rvars, svars>>

\* the resolved literal is aggregated
Aggregate ==
  /\ pc = "resolved"
  /\ ~resolved.ovf
  /\ result' = extractRoutesWithSpreads(resolved.node, sourceFile, filePath)
  /\ pc' = "done"
  /\ UNCHANGED <<sourceFile, filePath, node, layers, target, resolved>>
  /\ UNCHANGED <<bvars, rvars, svars>>

\* the extractor alone is applied to the expression
Extract ==
  /\ pc = "start"
  /\ result' = Agg(extractRoutesFromObjectLiteral(node, filePath), {}, <<>>, FALSE)
  /\ pc' = "extracted"
  /\ UNCHANGED <<sourceFile, filePath, node, layers, target, resolved>>
  /\ UNCHANGED <<bvars, rvars, svars>>

Next == Resolve \/ Aggregate \/ Extract

Spec == Init /\ [][Next]_vars

----------------------------------------------------------------------------
\* Reference notions the properties are stated with

\* every expression written in n, n included
RECURSIVE SubExprs(_)
SubExprs(n) ==
  {n} \cup UNION {SubExprs(n.kids[i]) : i \in 1..Len(n.kids)}
      \cup UNION {SubExprs(n.props[i].value) : i \in 1..Len(n.props)}

\* the texts of all expressions of the file and of the expression scanned
AllTexts ==
  {getText(e) :
     e \in SubExprs(node)
           \cup UNION {SubExprs(sourceFile.vars[i].initializer) :
                         i \in 1..Len(sourceFile.vars)}
           \cup UNION {UNION {SubExprs(sourceFile.funcs[i].returns[j]) :
                                j \in 1..Len(sourceFile.funcs[i].returns)} :
                         i \in 1..Len(sourceFile.funcs)} }

SeqToSet(q) == {q[i] : i \in 1..Len(q)}

\* the entry a later-wins merge of routes leaves for path, <<>> if none
LastWins(routes, path) ==
  LET hits == {i \in 1..Len(routes) : routes[i].path = path} IN
  IF hits = {} THEN <<>>
  ELSE <<routes[CHOOSE i \in hits : \A j \in hits : j <= i]>>

\* the spread elements of a literal
SpreadIdx(lit) == {i \in 1..Len(lit.props) : isSpreadAssignment(lit.props[i])}

\* the literal the resolver finds for the spread element i of lit
SpreadTarget(lit, i) ==
  resolveVariableToObjectLiteral(lit.props[i].value, sourceFile).node

RECURSIVE OwnRouteCount(_, _)
\* number of routes the literals log[i..] declare themselves
OwnRouteCount(log, i) ==
  IF i > Len(log) THEN 0
  ELSE Len(extractRoutesFromObjectLiteral(log[i], filePath)) + OwnRouteCount(log, i + 1)

----------------------------------------------------------------------------
\* C1: resolveVariableToObjectLiteral terminates on every input, also when a
\* variable's initializer refers to itself directly or through other
\* variables, wrapper calls, function returns or property accesses: the
\* recursion never outgrows the stack, and it visits only texts of
\* expressions written in the file, each of them once.
C1_ResolverTerminates ==
  pc # "start" /\ pc # "extracted" =>
    /\ ~resolved.ovf
    /\ resolved.visited \subseteq AllTexts

\* a is b, b is merge(b): the second visit of b is cut off as not found
C1_Witness ==
  /\ pc = "resolved"
  /\ node = Id("a")
  /\ Len(sourceFile.vars) = 3
  /\ sourceFile.vars[1].initializer = Id("b")
  /\ sourceFile.vars[2].initializer = Call("merge", <<Id("b")>>)
  /\ ~Truthy(resolved.node)
  /\ resolved.visited = {<<"a">>, <<"b">>, <<"merge", "(", "b", ")">>}

\* C2: a routes literal reached through layers of variable aliases,
\* pass-through wrapper calls and property accesses aggregates to the same
\* RouteInfo sequence as the literal passed directly.
C2_AliasChasing ==
  pc = "done" /\ isObjectLiteralExpression(target) =>
    result.routes = extractRoutesWithSpreads(target, sourceFile, filePath).routes

\* the own route of literal lit for path, <<>> when it declares none
Declared(lit, path) == LastWins(extractRoutesFromObjectLiteral(lit, filePath), path)

\* the literal has the shape {...a, ...b} or {...a, ...b, x: fn} and the
\* literals a and b resolve to both declare x
IsOverrideShape(lit) ==
  /\ isObjectLiteralExpression(lit)
  /\ Len(lit.props) \in {2, 3}
  /\ isSpreadAssignment(lit.props[1])
  /\ isSpreadAssignment(lit.props[2])
  /\ Len(lit.props) = 3 =>
       /\ Truthy(functionNode(lit.props[3]))
       /\ StripQuotes(lit.props[3].key) = <<"x">>
  /\ isObjectLiteralExpression(SpreadTarget(lit, 1))
  /\ isObjectLiteralExpression(SpreadTarget(lit, 2))
  /\ Declared(SpreadTarget(lit, 1), <<"x">>) # <<>>
  /\ Declared(SpreadTarget(lit, 2), <<"x">>) # <<>>

\* C3: for {...a, ...b, x: fn} with a and b both declaring x, the sequence
\* holds a's x before b's x before the literal's own x, and a later-wins
\* merge leaves the literal's own x, or b's x when the literal has none.
C3_SpreadOverrideOrder ==
  pc = "done" /\ IsOverrideShape(resolved.node) =>
    LET ra == Declared(SpreadTarget(resolved.node, 1), <<"x">>)[1]
        rb == Declared(SpreadTarget(resolved.node, 2), <<"x">>)[1]
        own == Declared(resolved.node, <<"x">>)
        routes == result.routes
    IN /\ \E i, j \in 1..Len(routes) :
            /\ routes[i] = ra
            /\ routes[j] = rb
            /\ i < j \/ ra = rb
            /\ own # <<>> => routes[Len(routes)] = own[1] /\ i < Len(routes) /\ j < Len(routes)
       /\ LastWins(routes, <<"x">>) = (IF own # <<>> THEN own ELSE <<rb>>)

\* every spread of lit is unresolved or resolves to a literal without
\* spreads, and no two of them resolve to the same text
HasFlatSpreads(lit) ==
  /\ isObjectLiteralExpression(lit)
  /\ \A i \in SpreadIdx(lit) :
       Truthy(SpreadTarget(lit, i)) => SpreadIdx(SpreadTarget(lit, i)) = {}
  /\ \A i, j \in SpreadIdx(lit) :
       i # j /\ Truthy(SpreadTarget(lit, i)) =>
         getText(SpreadTarget(lit, i)) # getText(SpreadTarget(lit, j))

RECURSIVE DeclarationOrder(_, _)
\* the routes of lit.props[i..] read left to right, a spread replaced at its
\* position by the routes of the literal it resolves to
DeclarationOrder(lit, i) ==
  IF i > Len(lit.props) THEN <<>>
  ELSE (IF isSpreadAssignment(lit.props[i])
          THEN extractRoutesFromObjectLiteral(SpreadTarget(lit, i), filePath)
        ELSE IF Truthy(functionNode(lit.props[i]))
          THEN <<routeOfProp(lit.props[i], filePath)>>
        ELSE <<>>)
       \o DeclarationOrder(lit, i + 1)

\* C4: whatever the position of spreads and own properties, the aggregated
\* sequence is in declaration order after spread flattening, so a later-wins
\* merge keeps what left-to-right object composition keeps.
C4_DeclarationOrder ==
  pc = "done" /\ HasFlatSpreads(resolved.node) =>
    /\ result.routes = DeclarationOrder(resolved.node, 1)
    /\ \A r \in SeqToSet(result.routes) :
         LastWins(result.routes, r.path) = LastWins(DeclarationOrder(resolved.node, 1), r.path)

\* C5: the aggregator terminates on literals that spread themselves, lets
\* each literal text pass its guard at most once, and emits each own route of
\* each literal exactly once: a cyclic spread contributes nothing again.
C5_AggregatorCycleTermination ==
  pc = "done" =>
    /\ ~result.ovf
    /\ \A i, j \in 1..Len(result.log) :
         getText(result.log[i]) = getText(result.log[j]) => i = j
    /\ result.visited = {getText(result.log[i]) : i \in 1..Len(result.log)}
    /\ Len(result.routes) = OwnRouteCount(result.log, 1)
    /\ \A r \in SeqToSet(result.routes) :
         \E i \in 1..Len(result.log) :
           r \in SeqToSet(extractRoutesFromObjectLiteral(result.log[i], filePath))

\* {...a, ...b} where a is {...a, y(p) {}}: a is entered once
C5_Witness ==
  /\ pc = "done"
  /\ node = Lit(<<Spread(Id("a")), Spread(Id("b"))>>)
  /\ Len(sourceFile.vars) = 3
  /\ sourceFile.vars[1].initializer =
       Lit(<<Spread(Id("a")), MethodProp("Identifier", Key("y"), <<"p: string">>, "void")>>)
  /\ sourceFile.vars[2].initializer = LA
  /\ Len(result.log) = 3
  /\ Len(result.routes) = 2

\* C6: a spread that does not resolve to a literal is omitted without
\* raising, and the other spreads and the own function-valued properties of
\* the same literal are still extracted.
C6_UnresolvableIsSkipped ==
  pc = "done" /\ isObjectLiteralExpression(resolved.node)
    /\ (\E i \in SpreadIdx(resolved.node) : ~Truthy(SpreadTarget(resolved.node, i))) =>
    LET lit == resolved.node
        own == extractRoutesFromObjectLiteral(lit, filePath)
        routes == result.routes
    IN /\ ~result.ovf
       /\ Len(routes) >= Len(own)
       /\ SubSeq(routes, Len(routes) - Len(own) + 1, Len(routes)) = own
       /\ \A i \in SpreadIdx(lit) :
            SeqToSet(extractRoutesFromObjectLiteral(SpreadTarget(lit, i), filePath))
              \subseteq SeqToSet(routes)

\* {...u, ...b, x: fn} with u undeclared: b's two routes and x are found
C6_Witness ==
  /\ pc = "done"
  /\ node = Lit(<<Spread(Id("u")), Spread(Id("b")), Own("x", F1)>>)
  /\ Len(sourceFile.vars) = 3
  /\ sourceFile.vars[2].initializer = LB
  /\ Len(result.routes) = 3

\* function-valued properties of lit whose key is a literal name
LiteralKeyRoutes(lit) ==
  {routeOfProp(lit.props[i], filePath) :
     i \in {k \in 1..Len(lit.props) :
              /\ Truthy(functionNode(lit.props[k]))
              /\ lit.props[k].keyKind \in {"Identifier", "StringLiteral"}}}

\* C7: a property with a computed key is omitted by the extractor: every
\* route comes from a property with a literal key.
C7_ComputedKeyOmitted ==
  pc = "extracted" /\ isObjectLiteralExpression(node) =>
    SeqToSet(result.routes) \subseteq LiteralKeyRoutes(node)

\* C8: every RouteInfo of a call-site, also one reached through spreads and
\* aliases, has file equal to the path handed to the aggregator.
C8_FileAttribution ==
  pc \in {"done", "extracted"} =>
    \A i \in 1..Len(result.routes) : result.routes[i].file = filePath

\* routes of three literals, reached through an alias and two spreads, for a
\* path other than the source file's
C8_Witness ==
  /\ pc = "done"
  /\ filePath # sourceFile.path
  /\ ~isObjectLiteralExpression(node)
  /\ Len(result.log) >= 3
  /\ Len(result.routes) >= 3

\* C9: every emitted path is non-empty after quote-stripping, also for the
\* key ''.
C9_PathNonEmpty ==
  pc \in {"done", "extracted"} =>
    \A i \in 1..Len(result.routes) : result.routes[i].path # <<>>

\* C10: resolving h(arg, ...) for a recognized pass-through helper h gives
\* what resolving arg gives.
C10_PassThroughUnwrapping ==
  pc = "resolved" /\ isCallExpression(node) /\ Len(node.kids) >= 2
    /\ getText(node.kids[1]) \in PassThrough =>
    resolved.node = resolveVariableToObjectLiteral(node.kids[2], sourceFile).node


----------------------------------------------------------------------------
\* The Builder (./ast/builder): the Global Route Table over the include set

\* what a file of the include set holds: one call-site and its declarations
Contents == {"A", "C", "D"}

\* { y: () => 1, xa: function (q: number, s) {...} }
LD == Lit(<<Own("y", F1), PropertyAssignment("Identifier", <<"x", "a">>, F3)>>)

\* the routes argument of the call-site in a file holding content c
CallSite(c) ==
  IF c = "A" THEN Call("defineMessageRoutes", <<Id("a")>>)
  ELSE IF c = "C" THEN Lit(<<Spread(Id("a")), Own("x", F2)>>)
  ELSE LD

\* the syntax tree of file f holding content c
Parse(f, c) == File(f, <<Var("a", LA), Var("b", LB)>>, <<>>)

\* Scanner: the routes of the call-site of file f holding content c; a file
\* that is absent, or a routes argument that does not resolve, has none
ScanFile(f, c) ==
  IF c = "absent" THEN <<>>
  ELSE LET r == resolveVariableToObjectLiteral(CallSite(c), Parse(f, c)) IN
       IF r.ovf THEN <<>>
       ELSE extractRoutesWithSpreads(r.node, Parse(f, c), f).routes

\* the Scanner is a function of the file's text alone: scans holds what it
\* finds in each file for each content the file can hold
Scan(f, c) == scans[f][c]

PathsOf(routes) == {routes[i].path : i \in 1..Len(routes)}

\* table.set(route.path, route): a new path goes last, a known path keeps
\* its place and takes the new RouteInfo
MapSetAppending(t, r) == Append(t, r)

MapSet(t, r) ==
  IF \E i \in 1..Len(t) : t[i].path = r.path
    THEN [i \in 1..Len(t) |-> IF t[i].path = r.path THEN r ELSE t[i]]
    ELSE Append(t, r)

\* table.delete(path) for every path of ps
MapDeleteAll(t, ps) ==
  LET keep(e) == e.path \notin ps IN SelectSeq(t, keep)

RECURSIVE insertFrom(_, _, _)
\* the routes from the i-th on, set one after the other
insertFrom(t, routes, i) ==
  IF i > Len(routes) THEN t
  ELSE insertFrom(MapSet(t, routes[i]), routes, i + 1)

\* the Builder's own fields
MkBuilder(st, t, rev, txt, fr) ==
  [state |-> st, table |-> t, reverseIndex |-> rev, cachedText |-> txt, fresh |-> fr]

\* whether a text rendered earlier still stands after the table was written
FreshKept(b) == b.fresh

FreshAfterMutation(b) == FALSE

retractIndexOnly(b, f) ==
  [b EXCEPT !.reverseIndex = [b.reverseIndex EXCEPT ![f] = {}],
            !.fresh = FreshAfterMutation(b)]

\* retract every path the file contributed, and its reverse-index entry
retract(b, f) ==
  [b EXCEPT !.table = MapDeleteAll(b.table, b.reverseIndex[f]),
            !.reverseIndex = [b.reverseIndex EXCEPT ![f] = {}],
            !.fresh = FreshAfterMutation(b)]

\* insert the routes of a fresh scan of the file
insert(b, f, routes) ==
  [b EXCEPT !.table = insertFrom(b.table, routes, 1),
            !.reverseIndex = [b.reverseIndex EXCEPT ![f] = PathsOf(routes)],
            !.fresh = FreshAfterMutation(b)]

\* the files of the include set, in the order a batch processes them
FileOrder == <<FileF1, FileF2>>

RECURSIVE scanFrom(_, _, _)
scanFrom(b, d, i) ==
  IF i > Len(FileOrder) THEN b
  ELSE scanFrom(insert(b, FileOrder[i], Scan(FileOrder[i], d[FileOrder[i]])),
                d, i + 1)

EmptyBuilder ==
  MkBuilder("uninitialized", <<>>, [f \in ScanSet |-> {}], <<>>, FALSE)

\* init(): a full Scanner pass over the include set
init(b, d) == [scanFrom(EmptyBuilder, d, 1) EXCEPT !.state = "ready"]

\* the characters of route paths, in code-unit order
Alphabet == <<"a", "b", "k", "n", "p", "q", "s", "w", "x", "y", "z">>

CharCode(c) ==
  IF \E i \in 1..Len(Alphabet) : Alphabet[i] = c
    THEN CHOOSE i \in 1..Len(Alphabet) : Alphabet[i] = c
    ELSE 0

RECURSIVE LexLess(_, _)
\* p sorts before q
LexLess(p, q) ==
  IF Len(q) = 0 THEN FALSE
  ELSE IF Len(p) = 0 THEN TRUE
  ELSE IF CharCode(Head(p)) # CharCode(Head(q))
    THEN CharCode(Head(p)) < CharCode(Head(q))
  ELSE LexLess(Tail(p), Tail(q))

\* one line of the route-table type: the path and its two type texts
RenderEntry(e) ==
  [path |-> e.path, paramText |-> e.paramText, returnType |-> e.returnType]

RECURSIVE sortByPath(_)
\* the entries by path, the least first
sortByPath(t) ==
  IF Len(t) = 0 THEN <<>>
  ELSE LET i == CHOOSE i \in 1..Len(t) :
                  \A j \in 1..Len(t) : ~LexLess(t[j].path, t[i].path)
           rest == [j \in 1..(Len(t) - 1) |-> IF j < i THEN t[j] ELSE t[j + 1]]
       IN <<t[i]>> \o sortByPath(rest)

RenderInsertionOrder(t) == [i \in 1..Len(t) |-> RenderEntry(t[i])]

\* the virtual module text of a table
Render(t) ==
  LET sorted == sortByPath(t) IN
  [i \in 1..Len(sorted) |-> RenderEntry(sorted[i])]

\* update(): re-render the text from the present table
update(b) ==
  [b EXCEPT !.cachedText = Render(b.table), !.fresh = TRUE, !.state = "ready"]

\* getVirtualModuleContent(): the text rendered last, rendered now when none
\* was rendered since the last mutation
getVirtualModuleContent(b) ==
  IF b.fresh THEN b ELSE [b EXCEPT !.cachedText = Render(b.table), !.fresh = TRUE]

\* a file event's scan was overtaken by a later event for the same file
neverSuperseded(job, g) == FALSE

superseded(job, g) == job.gen # g[job.file]

\* the event changed the set of paths the file contributes
pathsChanged(b0, b1, f) == b0.reverseIndex[f] # b1.reverseIndex[f]

\* the end of a file event: mark the table stale when the paths changed
settle(b0, b1, f) ==
  IF pathsChanged(b0, b1, f) THEN [b1 EXCEPT !.state = "stale"] ELSE b1

\* a whole file event on a file now holding content c
handleFile(b, f, kind, c) ==
  IF kind = "remove" THEN settle(b, retract(b, f), f)
  ELSE settle(b, insert(retract(b, f), f, Scan(f, c)), f)

----------------------------------------------------------------------------
\* The Builder behind the plugin's hooks

Builder == MkBuilder(state, table, reverseIndex, cachedText, fresh)

Store(b) ==
  /\ state' = b.state
  /\ table' = b.table
  /\ reverseIndex' = b.reverseIndex
  /\ cachedText' = b.cachedText
  /\ fresh' = b.fresh

\* no file's retract-insert pair is half applied
AlwaysIdle == TRUE

Idle == applying = NoJob

ModuleReload == "reloadModule"

InitBuilder ==
  /\ sourceFile = File("src/background.ts", <<>>, <<>>)
  /\ filePath = "src/background.ts"
  /\ node = undefined
  /\ layers = <<>>
  /\ target = undefined
  /\ pc = "builder"
  /\ resolved = Res(undefined, {}, FALSE)
  /\ result = NoResult
  /\ RouterIdle
  /\ SenderIdle
  /\ state = "uninitialized"
  /\ scans = [f \in ScanSet |-> [c \in Contents \cup {"absent"} |-> ScanFile(f, c)]]
  /\ disk \in [ScanSet -> Contents \cup {"absent"}]
  /\ table = <<>>
  /\ reverseIndex = [f \in ScanSet |-> {}]
  /\ cachedText = <<>>
  /\ fresh = FALSE
  /\ subscribers = {}
  /\ jobs = {}
  /\ gen = [f \in ScanSet |-> 0]
  /\ applying = NoJob
  /\ nEvents = 0
  /\ before = [table |-> <<>>, reverseIndex |-> [f \in ScanSet |-> {}]]
  /\ last = NoEvent
  /\ scanned = {}
  /\ invoked = {}
  /\ appliedGen = [f \in ScanSet |-> 0]
  /\ lastScan = [f \in ScanSet |-> <<>>]

\* what a full scan leaves in the record of the last event
AfterFullScan ==
  /\ before' = [table |-> table, reverseIndex |-> reverseIndex]
  /\ last' = [file |-> "", kind |-> "init"]
  /\ scanned' = ScanSet
  /\ invoked' = {}
  /\ lastScan' = [f \in ScanSet |-> Scan(f, disk[f])]
  /\ UNCHANGED <<disk, scans, subscribers, jobs, gen, applying, nEvents, appliedGen>>

\* buildStart of the plugin that owns its builder: init(), then update()
buildStart ==
  /\ state = "uninitialized"
  /\ Idle
  /\ Store(update(init(Builder, disk)))
  /\ AfterFullScan
  /\ UNCHANGED <<pvars, rvars, svars>>

\* configResolved of the earlier plugin: init() alone
configResolved ==
  /\ state = "uninitialized"
  /\ Idle
  /\ Store(init(Builder, disk))
  /\ AfterFullScan
  /\ UNCHANGED <<pvars, rvars, svars>>

\* configureServer, which the dev server calls before the build starts:
\* onInvalidate(callback) registers the module reload
configureServer ==
  /\ state = "uninitialized"
  /\ ModuleReload \notin subscribers
  /\ subscribers' = subscribers \cup {ModuleReload}
  /\ UNCHANGED <<state, disk, scans, table, reverseIndex, cachedText, fresh, jobs,
                 gen, applying, nEvents, before, last, scanned, invoked, appliedGen,
                 lastScan>>
  /\ UNCHANGED <<pvars, rvars, svars>>

QueryFrame ==
  /\ UNCHANGED <<disk, scans, subscribers, jobs, gen, applying, nEvents, before, last,
                 scanned, invoked, appliedGen, lastScan>>
  /\ UNCHANGED <<pvars, rvars, svars>>

\* update() asked by a subscriber or by buildStart of the earlier plugin
updateCall ==
  /\ state # "uninitialized"
  /\ Idle
  /\ Store(update(Builder))
  /\ QueryFrame

\* Module ids are sequences of characters; NUL is the character '\0'
NUL == "NUL"
DefaultModuleName == <<"vite-message-router">>
ModuleNames == {DefaultModuleName, <<NUL, "routes">>}

\* a plugin whose internal id is the module name itself
MODULE_ID_Unprefixed(moduleName) == moduleName

\* MODULE_ID = '\0' + MODULE_NAME
MODULE_ID(moduleName) == <<NUL>> \o moduleName

\* the ids the bundler may ask about
Ids ==
  UNION {{n, MODULE_ID(n), MODULE_ID(MODULE_ID(n))} : n \in ModuleNames}
    \cup {<<>>, <<"routes">>}

\* the ids the bundler asks the plugin of this build to load
LoadedIds == {DefaultModuleName, MODULE_ID(DefaultModuleName)}

\* resolveId(id) of a plugin made with moduleName
resolveId(moduleName, id) ==
  IF id = moduleName THEN JsString(MODULE_ID(moduleName)) ELSE JsUndefined

\* what load(id) returns of a plugin made with moduleName, builder b
loadReturn(moduleName, b, id) ==
  IF id = MODULE_ID(moduleName)
    THEN JsString(getVirtualModuleContent(b).cachedText)
    ELSE JsUndefined

\* load(id): for the internal id the builder renders or reuses its text;
\* for any other id nothing is touched
load(id) ==
  /\ state # "uninitialized"
  /\ Idle
  /\ IF id = MODULE_ID(DefaultModuleName)
       THEN Store(getVirtualModuleContent(Builder))
       ELSE UNCHANGED <<state, table, reverseIndex, cachedText, fresh>>
  /\ QueryFrame

Job(f, kind, g, c) == [file |-> f, kind |-> kind, gen |-> g, content |-> c]

\* the kinds of event a file holding content c can get, with what it holds after
EventsOn(c) ==
  IF c = "absent" THEN {<<"add", k>> : k \in Contents}
  ELSE {<<"change", k>> : k \in Contents} \cup {<<"remove", "absent">>}

\* the watcher reports a file: the file is read, its scan is pending
fileEvent(f, kind, c) ==
  /\ state # "uninitialized"
  /\ Idle
  /\ nEvents < MaxEvents
  /\ <<kind, c>> \in EventsOn(disk[f])
  /\ disk' = [disk EXCEPT ![f] = c]
  /\ gen' = [gen EXCEPT ![f] = gen[f] + 1]
  /\ jobs' = jobs \cup {Job(f, kind, gen[f] + 1, c)}
  /\ nEvents' = nEvents + 1
  /\ UNCHANGED <<state, scans, table, reverseIndex, cachedText, fresh, subscribers,
                 applying, before, last, scanned, invoked, appliedGen, lastScan>>
  /\ UNCHANGED <<pvars, rvars, svars>>

\* the read of an overtaken event ends: its result is dropped
discard(job) ==
  /\ Idle
  /\ job \in jobs
  /\ superseded(job, gen)
  /\ jobs' = jobs \ {job}
  /\ UNCHANGED <<state, disk, scans, table, reverseIndex, cachedText, fresh,
                 subscribers, gen, applying, nEvents, before, last, scanned, invoked,
                 appliedGen, lastScan>>
  /\ UNCHANGED <<pvars, rvars, svars>>

\* what the end of a file event records, and whom it calls
Settled(b0, b1, job, routes) ==
  /\ Store(settle(b0, b1, job.file))
  /\ invoked' = IF pathsChanged(b0, b1, job.file) THEN subscribers ELSE {}
  /\ last' = [file |-> job.file, kind |-> job.kind]
  /\ appliedGen' = [appliedGen EXCEPT ![job.file] = job.gen]
  /\ lastScan' = [lastScan EXCEPT ![job.file] = routes]
  /\ applying' = NoJob

\* the read of the latest event of a file ends: its old contributions go
retractStep(job) ==
  /\ Idle
  /\ job \in jobs
  /\ ~superseded(job, gen)
  /\ jobs' = jobs \ {job}
  /\ before' = [table |-> table, reverseIndex |-> reverseIndex]
  /\ IF job.kind = "remove"
       THEN /\ Settled(Builder, retract(Builder, job.file), job, <<>>)
            /\ scanned' = {}
       ELSE /\ Store(retract(Builder, job.file))
            /\ applying' = job
            /\ scanned' = {job.file}
            /\ UNCHANGED <<invoked, last, appliedGen, lastScan>>
  /\ UNCHANGED <<disk, scans, subscribers, gen, nEvents>>
  /\ UNCHANGED <<pvars, rvars, svars>>

\* the second half of an add or a change: the new contributions come
insertStep ==
  /\ ~Idle
  /\ Settled([Builder EXCEPT !.reverseIndex = before.reverseIndex],
             insert(Builder, applying.file, Scan(applying.file, applying.content)),
             applying, Scan(applying.file, applying.content))
  /\ UNCHANGED <<disk, scans, subscribers, jobs, gen, nEvents, before, scanned>>
  /\ UNCHANGED <<pvars, rvars, svars>>

NextBuilder ==
  \/ buildStart
  \/ configResolved
  \/ configureServer
  \/ updateCall
  \/ \E id \in LoadedIds : load(id)
  \/ \E f \in ScanSet : \E ev \in EventsOn(disk[f]) : fileEvent(f, ev[1], ev[2])
  \/ \E job \in jobs : discard(job)
  \/ \E job \in jobs : retractStep(job)
  \/ insertStep

SpecBuilder == InitBuilder /\ [][NextBuilder]_vars

\* no file event is pending or half applied
Quiescent == state # "uninitialized" /\ jobs = {} /\ Idle

----------------------------------------------------------------------------
\* Properties of the Builder

\* the table entries a file owns
EntriesOf(t, f) == {t[i] : i \in {j \in 1..Len(t) : t[j].file = f}}

\* the first file event after init() has been handled
FirstEventHandled(f, kind) ==
  Idle /\ jobs = {} /\ nEvents = 1 /\ last = [file |-> f, kind |-> kind]

\* C11 Incrementality: after init() over {F1, F2}, a change event for F1
\* leaves every table entry whose file is F2 as it was, whatever the two
\* files hold
C11_Incrementality ==
  FirstEventHandled(FileF1, "change") /\ before.reverseIndex[FileF2] # {}
    => EntriesOf(table, FileF2) = EntriesOf(before.table, FileF2)

\* the mapping a table is, whatever the order its paths came in
Mapping(t) == {t[i] : i \in 1..Len(t)}

\* the table a full rescan of the files as they are now would produce
Rescan == init(EmptyBuilder, disk)

\* C12 Convergence: once every file event has been handled, the table is the
\* table a full rescan of the resulting file set produces
C12_Convergence ==
  Quiescent /\ nEvents > 0 => Mapping(table) = Mapping(Rescan.table)

\* a step applies to file f the result of the event scheduled last for f, or
\* none: never an older one over a newer one
AppliesLatestOnly(f) ==
  /\ appliedGen'[f] >= appliedGen[f]
  /\ appliedGen'[f] # appliedGen[f] => appliedGen'[f] = gen[f]

\* the table holds for f what the event scheduled last for f found
HoldsLatest(f) ==
  /\ appliedGen[f] = gen[f]
  /\ lastScan[f] = Scan(f, disk[f])
  /\ reverseIndex[f] = PathsOf(Scan(f, disk[f]))

\* C13 Cancellation: of two events for one file whose scans overlap, the
\* result of the earlier is never applied after the later one's, and once
\* both have completed the table holds the later one's result
C13_Cancellation ==
  /\ [][\A f \in ScanSet : AppliesLatestOnly(f)]_vars
  /\ [](Quiescent => \A f \in ScanSet : gen[f] > 0 => HoldsLatest(f))

\* the later of two overlapping events of a file is applied while the
\* earlier one's scan is still in flight
C13_Witness ==
  \E job \in jobs : job.gen = 1 /\ gen[job.file] = 2 /\ appliedGen[job.file] = 2 /\ Idle

\* the same entries in every order they could have been inserted in
Reorderings(t) ==
  {[i \in 1..Len(t) |-> t[p[i]]] : p \in Permutations(1..Len(t))}

\* the text names the paths in strictly increasing order
IsLexicographic(txt) ==
  \A i, j \in 1..Len(txt) : i < j => LexLess(txt[i].path, txt[j].path)

\* the text update() returns
Updated(b) == update(b).cachedText

\* C14 Determinism of rendering: the text update() returns has one line per
\* table entry, in lexicographic path order, and is the same for every order
\* the same entries could have been inserted in
C14_RenderingDeterminism ==
  state # "uninitialized" /\ Idle =>
    LET txt == Updated(Builder) IN
    /\ IsLexicographic(txt)
    /\ {txt[i] : i \in 1..Len(txt)} = {RenderEntry(e) : e \in Mapping(table)}
    /\ \A t \in Reorderings(table) : Updated([Builder EXCEPT !.table = t]) = txt

\* update() has rendered a table whose insertion order is not path order
C14_Witness ==
  /\ fresh
  /\ cachedText = Updated(Builder)
  /\ \E i, j \in 1..Len(table) : i < j /\ LexLess(table[j].path, table[i].path)
  /\ last.kind = "init"

C16_RemoveRetracts ==
  Idle /\ last.kind = "remove" =>
    /\ EntriesOf(table, last.file) = {}
    /\ reverseIndex[last.file] = {}
    /\ scanned = {}

\* a file that contributed routes has been removed while the other file's
\* routes stay in the table
C16_Witness ==
  /\ Idle
  /\ last.kind = "remove"
  /\ before.reverseIndex[last.file] # {}
  /\ EntriesOf(before.table, last.file) # {}
  /\ Len(table) > 0

\* the file event handled last changed what the table holds
ObservableChange == Mapping(table) # Mapping(before.table)

\* C17 Invalidation: a handled file event invokes every registered
\* subscriber when it changed the table, be it only the paramText or the
\* returnType of a path, and no subscriber when it left the table as it was
C17_Invalidation ==
  Idle /\ last.kind \in {"add", "change", "remove"} =>
    invoked = IF ObservableChange THEN subscribers ELSE {}

\* the text load(MODULE_ID) gets
Served == getVirtualModuleContent(Builder).cachedText

\* C18 Freshness of served content: in every state after init() the text
\* getVirtualModuleContent() returns, cached or rendered on demand, is the
\* rendering of the table as it is now
C18_ServedContentFresh ==
  state # "uninitialized" => Served = Render(table)

\* a cached text is served after a file event changed what the text says
C18_Witness ==
  /\ Idle
  /\ fresh
  /\ last.kind \in {"add", "change", "remove"}
  /\ Render(table) # Render(before.table)
  /\ Served = cachedText
  /\ Len(cachedText) > 0

\* the table and the reverse index after event e1 on f1 and then e2 on f2
AfterBoth(f1, e1, f2, e2) ==
  LET b == handleFile(handleFile(Builder, f1, e1[1], e1[2]), f2, e2[1], e2[2])
  IN <<Mapping(b.table), b.reverseIndex>>

\* C19 Independence of events for different files: an event on F1 and an
\* event on F2 leave the same table and reverse index in either order
C19_EventIndependence ==
  Quiescent =>
    \A e1 \in EventsOn(disk[FileF1]) : \A e2 \in EventsOn(disk[FileF2]) :
      AfterBoth(FileF1, e1, FileF2, e2) = AfterBoth(FileF2, e2, FileF1, e1)

\* a file's old contributions are retracted and its new ones not yet inserted
HalfApplied == applying # NoJob

\* C20 Atomic file update: from the state between the retract and the insert
\* of one file's add or change event, the only step taken is that insert: no
\* query reads the table and no other event touches it there
C20_AtomicFileUpdate ==
  [][HalfApplied =>
       /\ applying' = NoJob
       /\ last' = [file |-> applying.file, kind |-> applying.kind]
       /\ table' = insertFrom(table, Scan(applying.file, applying.content), 1)
       /\ reverseIndex' = [reverseIndex EXCEPT
                             ![applying.file] = PathsOf(Scan(applying.file, applying.content))]
       /\ UNCHANGED <<cachedText, jobs, disk>>]_vars

\* between the retract and the insert of a file that loses and gains routes,
\* while another file's event waits
C20_Witness ==
  /\ HalfApplied
  /\ Len(table) < Len(before.table)
  /\ Scan(applying.file, applying.content) # <<>>
  /\ \E job \in jobs : job.file # applying.file

\* ---------------------------------------------------------------------
\* Routers: createRouterCore, createMessageRouter, createPortRouter and
\* executeMessageHandler
\* ---------------------------------------------------------------------

\* What a handler does when called: it returns its payload, throws, or
\* returns a promise that later resolves with the payload or rejects
Handlers == {"returns", "throws", "resolves", "rejects"}

HandlerError == JsError(<<"handler failed">>)

PathP == <<"p">>
PathPQ == <<"p", "q">>
PathQ == <<"q">>
PathToString == <<"toString">>

\* Object.prototype, which a routes object written as a literal inherits:
\* toString is a function there
ObjectPrototype == [path \in {PathToString} |-> "toString"]

\* what a handler that returns normally, or whose promise resolves, gives
returned(handler, payload) ==
  IF handler = "toString" THEN JsString(<<"[object Object]">>) ELSE payload

\* routes[path]: own properties first, then the prototype chain
Lookup(rs, path) ==
  IF path \in DOMAIN rs THEN rs[path]
  ELSE IF path \in DOMAIN ObjectPrototype THEN ObjectPrototype[path]
  ELSE "undefined"

\* the listener bookkeeping of one router: the enabled flag, the listeners
\* registered on the event, and the calls made on the event
Core(e, l, made) == [enabled |-> e, listeners |-> l, calls |-> made]

addListener(c) ==
  [c EXCEPT !.listeners = @ + 1, !.calls = Append(@, "addListener")]

removeListener(c) ==
  [c EXCEPT !.listeners = IF @ > 0 THEN @ - 1 ELSE 0,
            !.calls = Append(@, "removeListener")]

\* an enable() that registers the listener whatever the flag says
enableUnguarded(c) == [addListener(c) EXCEPT !.enabled = TRUE]

\* enable(): if (!enabled) { addListener(); enabled = true }
enable(c) == IF ~c.enabled THEN [addListener(c) EXCEPT !.enabled = TRUE] ELSE c

\* disable(): if (enabled) { removeListener(); enabled = false }
disable(c) == IF c.enabled THEN [removeListener(c) EXCEPT !.enabled = FALSE] ELSE c

\* the parameter initialEnabled: boolean = true
initialEnabledOf(opt) == IF opt = JsUndefined THEN TRUE ELSE opt.bool

\* createRouterCore: let enabled = initialEnabled; if (enabled) { enable() }
createRouterCore(initialEnabled) ==
  LET c == Core(initialEnabled, 0, <<>>)
  IN  IF c.enabled THEN enable(c) ELSE c

\* the response objects { id, data } / { data } and { id, error } / { error }
\* the condition of `id ? ... : ...`: false for undefined and for the
\* empty string
isTruthy(v) == v \notin {JsUndefined, JsString(<<>>)}

DataResponse(id, data) ==
  IF isTruthy(id) THEN [id |-> id, data |-> data] ELSE [data |-> data]

ErrorResponse(id, error) ==
  IF isTruthy(id) THEN [id |-> id, error |-> error] ELSE [error |-> error]

requestId(request) == IF "id" \in DOMAIN request THEN request.id ELSE JsUndefined

\* executeMessageHandler up to its return: what was passed to sendResponse,
\* the promise the handler left behind, and the value returned
executeMessageHandler(handler, request) ==
  LET id == requestId(request)
  IN  CASE handler = "throws" ->
             [sent |-> <<ErrorResponse(id, HandlerError)>>, promise |-> "none",
              result |-> JsUndefined]
        [] handler \in {"resolves", "rejects"} ->
             [sent |-> <<>>, promise |-> handler, result |-> JsTrue]
        [] OTHER ->
             [sent |-> <<DataResponse(id, returned(handler, request.payload))>>,
              promise |-> "none",
              result |-> JsUndefined]

\* the callbacks executeMessageHandler attached to the handler's promise:
\* then(data => sendResponse(...)) and nothing for a rejection
whenSettled(request, promise) ==
  IF promise = "resolves"
    THEN <<DataResponse(requestId(request), request.payload)>>
    ELSE <<>>

endsWith(str, ch) == Len(str) > 0 /\ str[Len(str)] = ch
startsWith(str, prefix) ==
  Len(prefix) <= Len(str) /\ SubSeq(str, 1, Len(prefix)) = prefix
sliceLast(str) == SubSeq(str, 1, Len(str) - 1)

\* shouldProxy(path) of a router made with options.proxy
shouldProxy(proxy, path) ==
  IF proxy \in {JsUndefined, JsFalse} THEN FALSE
  ELSE IF proxy = JsTrue THEN TRUE
  ELSE \E i \in 1..Len(proxy.items) :
         LET pattern == proxy.items[i]
         IN  IF endsWith(pattern, "*")
               THEN startsWith(path, sliceLast(pattern))
               ELSE path = pattern

\* onMessage of createMessageRouter up to its first await
onMessage(rs, opts, request) ==
  LET handler == Lookup(rs, request.path)
  IN  IF handler # "undefined"
        THEN LET r == executeMessageHandler(handler, request)
             IN  [sent |-> r.sent, promise |-> r.promise, forwarded |-> <<>>,
                  handled |-> "local"]
      ELSE IF shouldProxy(opts.proxy, request.path)
        THEN [sent |-> <<>>, promise |-> "none",
              forwarded |-> <<[path |-> request.path, payload |-> request.payload]>>,
              handled |-> "proxying"]
      ELSE [sent |-> <<>>, promise |-> "none", forwarded |-> <<>>,
            handled |-> "ignored"]

\* onMessage of createPortRouter
onPortMessage(rs, request) ==
  LET handler == Lookup(rs, request.path)
  IN  IF handler # "undefined"
        THEN LET r == executeMessageHandler(handler, request)
             IN  [sent |-> r.sent, promise |-> r.promise, forwarded |-> <<>>,
                  handled |-> "local"]
        ELSE [sent |-> <<>>, promise |-> "none", forwarded |-> <<>>,
              handled |-> "ignored"]

\* setMessageError(type, message, info): the value lastError is given
setMessageError(type) ==
  IF type # JsUndefined THEN [type |-> type, message |-> JsUndefined, info |-> JsUndefined]
  ELSE JsUndefined

Pending == [state |-> "pending"]
Fulfilled(v) == [state |-> "fulfilled", value |-> v]
Rejected(e) == [state |-> "rejected", reason |-> e]

\* the transport promise as handleMessageResponse's then() leaves it, for
\* a transport outcome of
\*   [kind |-> "data", data |-> v]       the response { data: v }
\*   [kind |-> "error", error |-> e]     the response { error: e }
\*   [kind |-> "none", error |-> e]      no response object: reading
\*                                       result.error throws e
\*   [kind |-> "rejected", error |-> e]  the transport promise rejected with e
afterThen(outcome) ==
  IF outcome.kind = "data" THEN Fulfilled(outcome.data) ELSE Rejected(outcome.error)

\* a handleMessageResponse without its catch()
handleMessageResponseUncaught(outcome, opts) ==
  [promise |-> afterThen(outcome), onError |-> <<>>]

\* handleMessageResponse: the promise the caller gets, and the calls of
\* onError made by its catch()
handleMessageResponse(outcome, opts) ==
  IF afterThen(outcome).state = "rejected"
    THEN [promise |-> Fulfilled(JsUndefined),
          onError |-> IF "onError" \in DOMAIN opts /\ opts.onError
                        THEN <<afterThen(outcome).reason>>
                        ELSE <<>>]
    ELSE [promise |-> afterThen(outcome), onError |-> <<>>]

\* the routes objects, options and messages the router section runs on
Routes0 == [path \in {} |-> "returns"]
Routes1 == [path \in {PathP, PathPQ} |-> IF path = PathP THEN "returns" ELSE "throws"]
Routes2 == [path \in {PathP, PathQ} |-> IF path = PathP THEN "resolves" ELSE "rejects"]
RouteObjects == {Routes0, Routes1, Routes2}

EnabledOptions == {JsUndefined, JsTrue, JsFalse}

ProxyOptions ==
  {JsUndefined, JsFalse, JsTrue, JsArray(<<>>), JsArray(<<<<"p", "*">>>>),
   JsArray(<<PathQ, PathPQ>>), JsArray(<<<<"*">>>>)}

RouterOptions == [enabled : EnabledOptions, proxy : ProxyOptions]

MessagePaths == {PathP, PathPQ, PathQ, PathToString, <<"r">>}
Payloads == {JsUndefined, JsString(<<"v">>)}
RequestIds == {JsString(<<"u1">>), JsString(<<>>)}

MessageRequests == [path : MessagePaths, payload : Payloads]
PortRequests == [id : RequestIds, path : MessagePaths, payload : Payloads]

TransportOutcomes ==
  {[kind |-> "data", data |-> JsString(<<"remote">>)],
   [kind |-> "error", error |-> JsError(<<"remote failed">>)],
   [kind |-> "none", error |-> JsError(<<"TypeError">>)],
   [kind |-> "rejected", error |-> JsError(<<"no receiver">>)]}

RouterFrame == UNCHANGED <<pvars, bvars, svars>>

InitRouter ==
  /\ sourceFile = File("src/background.ts", <<>>, <<>>)
  /\ filePath = "src/background.ts"
  /\ node = undefined
  /\ layers = <<>>
  /\ target = undefined
  /\ pc = "router"
  /\ resolved = Res(undefined, {}, FALSE)
  /\ result = NoResult
  /\ BuilderIdle
  /\ RouterIdle
  /\ SenderIdle

\* createMessageRouter(routes, options)
createMessageRouter(rs, opts) ==
  /\ routerKind = "none"
  /\ routerKind' = "message"
  /\ routerRoutes' = rs
  /\ options' = opts
  /\ LET c == createRouterCore(initialEnabledOf(opts.enabled))
     IN  /\ enabled' = c.enabled
         /\ listeners' = c.listeners
         /\ apiCalls' = c.calls
  /\ UNCHANGED <<lastChange, message, responses, handlerPromise, forwarded, handled>>
  /\ RouterFrame

\* createPortRouter(routes, options); a port router has no proxy option
createPortRouter(rs, opts) ==
  /\ routerKind = "none"
  /\ opts.proxy = JsUndefined
  /\ routerKind' = "port"
  /\ routerRoutes' = rs
  /\ options' = opts
  /\ LET c == createRouterCore(initialEnabledOf(opts.enabled))
     IN  /\ enabled' = c.enabled
         /\ listeners' = c.listeners
         /\ apiCalls' = c.calls
  /\ UNCHANGED <<lastChange, message, responses, handlerPromise, forwarded, handled>>
  /\ RouterFrame

\* router.enable()
enableCall ==
  /\ routerKind # "none"
  /\ LET c == enable(Core(enabled, listeners, <<>>))
     IN  /\ enabled' = c.enabled
         /\ listeners' = c.listeners
         /\ apiCalls' = c.calls
         /\ lastChange' = IF c.enabled # enabled THEN "enable" ELSE lastChange
  /\ UNCHANGED <<routerKind, routerRoutes, options, message, responses,
                 handlerPromise, forwarded, handled>>
  /\ RouterFrame

\* router.disable()
disableCall ==
  /\ routerKind # "none"
  /\ LET c == disable(Core(enabled, listeners, <<>>))
     IN  /\ enabled' = c.enabled
         /\ listeners' = c.listeners
         /\ apiCalls' = c.calls
         /\ lastChange' = IF c.enabled # enabled THEN "disable" ELSE lastChange
  /\ UNCHANGED <<routerKind, routerRoutes, options, message, responses,
                 handlerPromise, forwarded, handled>>
  /\ RouterFrame

\* no handler promise and no forwarded request is outstanding
NothingOutstanding == handlerPromise \notin {"resolves", "rejects"} /\ handled # "proxying"

\* the browser hands an incoming request to the registered listener
receive(request) ==
  /\ routerKind # "none"
  /\ listeners > 0
  /\ NothingOutstanding
  /\ request \in (IF routerKind = "port" THEN PortRequests ELSE MessageRequests)
  /\ LET r == IF routerKind = "port"
                THEN onPortMessage(routerRoutes, request)
                ELSE onMessage(routerRoutes, options, request)
     IN  /\ message' = request
         /\ responses' = r.sent
         /\ handlerPromise' = r.promise
         /\ forwarded' = r.forwarded
         /\ handled' = r.handled
         /\ lastError' = IF r.handled = "proxying" THEN setMessageError(JsUndefined)
                                                  ELSE lastError
  /\ UNCHANGED <<routerKind, routerRoutes, options, enabled, listeners, apiCalls,
                 lastChange>>
  /\ UNCHANGED <<pvars, bvars, sendervars>>

\* the promise a handler returned settles
handlerSettles ==
  /\ handlerPromise \in {"resolves", "rejects"}
  /\ responses' = responses \o whenSettled(message, handlerPromise)
  /\ handlerPromise' = IF handlerPromise = "resolves" THEN "resolved" ELSE "rejected"
  /\ UNCHANGED <<routerKind, routerRoutes, options, enabled, listeners, apiCalls,
                 lastChange, message, forwarded, handled>>
  /\ RouterFrame

\* the forwarded request comes back: the router answers { data } with what
\* the awaited sendMessageRequest gave, or { error } had it rejected
proxySettles(outcome) ==
  /\ handled = "proxying"
  /\ LET awaited == handleMessageResponse(outcome, [logger |-> FALSE]).promise
     IN  responses' = Append(responses,
           IF awaited.state = "fulfilled"
             THEN [data |-> awaited.value]
             ELSE [error |-> awaited.reason])
  /\ handled' = "proxied"
  /\ UNCHANGED <<routerKind, routerRoutes, options, enabled, listeners, apiCalls,
                 lastChange, message, handlerPromise, forwarded>>
  /\ RouterFrame

NextRouter ==
  \/ \E rs \in RouteObjects : \E opts \in RouterOptions : createMessageRouter(rs, opts)
  \/ \E rs \in RouteObjects : \E opts \in RouterOptions : createPortRouter(rs, opts)
  \/ enableCall
  \/ disableCall
  \/ \E request \in MessageRequests \cup PortRequests : receive(request)
  \/ handlerSettles
  \/ \E outcome \in TransportOutcomes : proxySettles(outcome)

SpecRouter == InitRouter /\ [][NextRouter]_vars

\* ---------------------------------------------------------------------
\* Senders: createMessageSender and createPortSender
\* ---------------------------------------------------------------------

JsNumber(n) == [type |-> "number", n |-> n]

\* timeout = 30000 when options.timeout is undefined
DefaultTimeout == 30000

\* crypto.randomUUID(): a fresh id for each call
Uuid(n) == JsString(<<"uuid", ToString(n)>>)

\* the call a request id belongs to
CallOf(id) == CHOOSE n \in 0..MaxRequests + 1 : Uuid(n) = id

\* resolve and reject act on a pending promise only
settlePromise(promise, outcome) == IF promise = Pending THEN outcome ELSE promise

TimeoutError(path) == JsError(<<"Message timeout: ">> \o path)
DisconnectError == JsError(<<"Port disconnected">>)
LastError == JsError(<<"runtime.lastError">>)
PostError == JsError(<<"Attempting to use a disconnected port object">>)

\* payload[0] of the rest parameter ...payload
first(args) == IF Len(args) > 0 THEN args[1] ELSE JsUndefined

\* the one-time senders: const message = { path, payload: payload[0] }
messageOf(path, args) == [path |-> path, payload |-> first(args)]

\* the port sender: port.postMessage({ id, path, payload }), where payload
\* is the rest parameter itself
portRequestOf(id, path, args) == [id |-> id, path |-> path, payload |-> JsArray(args)]

\* sendMessageRequest(message, target, options): what goes to the
\* transport, and the options handleMessageResponse will be given
sendMessageRequest(msg, targetId, opts) ==
  [message |-> msg, target |-> targetId, options |-> opts]

\* a timer callback that forgets the request without rejecting its promise
timeoutForgets(promise, path) == promise

\* the timer callback's reject(new Error(`Message timeout: ${path}`))
timeoutRejects(promise, path) == settlePromise(promise, Rejected(TimeoutError(path)))

\* what is remembered of a call: its arguments, what the transport made of
\* it, and how often the resolve and reject stored for its id were invoked
SenderCall(path, args) ==
  [path |-> path, args |-> args, outcome |-> [kind |-> "none"], callbacks |-> 0]

\* an onMessage that leaves the request in pendingRequests
keepPending(pending, id) == pending

\* pendingRequests.delete(id)
deletePending(pending, id) == pending \ {id}

\* const error = !closedIntentionally ? chrome.runtime.lastError || defaultError : undefined
disconnectError(closed, runtimeError) ==
  IF ~closed
    THEN (IF runtimeError # JsUndefined THEN runtimeError ELSE DisconnectError)
    ELSE JsUndefined

\* an onDisconnect that rejects with error whatever closed the port
rejectWithError(closed, error) == error

\* reject(closedIntentionally ? defaultError : error)
rejectionOnDisconnect(closed, error) == IF closed THEN DisconnectError ELSE error

MessageErrorTypes == {JsUndefined, JsString(<<"no_response">>)}

\* the calls made on a sender: one without a payload, one with
SenderCalls == {<<PathP, <<>>>>, <<PathQ, <<JsString(<<"v">>)>>>>}
TargetIds == {JsUndefined, JsString(<<"ext">>)}

MessageSenderOptions ==
  [onError : BOOLEAN, timeout : {JsUndefined}, targetId : TargetIds]

PortSenderOptions ==
  [onError : BOOLEAN, timeout : {JsUndefined, JsNumber(5000)}, targetId : {JsUndefined}]

\* the responses that may arrive on the port: for the ids given out, and
\* for an id this sender never gave out
PortResponses ==
  UNION {{DataResponse(Uuid(n), JsString(<<"remote">>)),
          ErrorResponse(Uuid(n), JsError(<<"remote failed">>))}
         : n \in 0..MaxRequests}

SenderFrame == UNCHANGED <<pvars, bvars, rvars>>

InitSender ==
  /\ sourceFile = File("src/background.ts", <<>>, <<>>)
  /\ filePath = "src/background.ts"
  /\ node = undefined
  /\ layers = <<>>
  /\ target = undefined
  /\ pc = "sender"
  /\ resolved = Res(undefined, {}, FALSE)
  /\ result = NoResult
  /\ BuilderIdle
  /\ RouterIdle
  /\ SenderIdle

\* createMessageSender(options)
createMessageSender(opts) ==
  /\ senderKind = "none"
  /\ senderKind' = "message"
  /\ senderOptions' = opts
  /\ UNCHANGED <<timeout, connected, closedIntentionally, portState,
                 pendingRequests, timers, promises, calls, posted, onErrorCalls,
                 nextId, portListeners, lastError>>
  /\ SenderFrame

\* createPortSender(options): the port is connected and both listeners added
createPortSender(opts) ==
  /\ senderKind = "none"
  /\ senderKind' = "port"
  /\ senderOptions' = opts
  /\ timeout' = IF opts.timeout = JsUndefined THEN DefaultTimeout ELSE opts.timeout.n
  /\ connected' = TRUE
  /\ closedIntentionally' = FALSE
  /\ portState' = "open"
  /\ portListeners' = {"onMessage", "onDisconnect"}
  /\ UNCHANGED <<pendingRequests, timers, promises, calls, posted, onErrorCalls,
                 nextId, lastError>>
  /\ SenderFrame

\* setMessageError(type) called by the code around the library
setMessageErrorCall(type) ==
  /\ senderKind = "message"
  /\ lastError' = setMessageError(type)
  /\ UNCHANGED sendervars
  /\ SenderFrame

\* sendMessage(path, ...payload) of either sender, up to the return of
\* its promise
sendMessage(path, args) ==
  /\ senderKind # "none"
  /\ nextId <= MaxRequests
  /\ nextId' = nextId + 1
  /\ calls' = [calls EXCEPT ![nextId] = SenderCall(path, args)]
  /\ IF senderKind = "message"
       THEN /\ lastError' = setMessageError(JsUndefined)
            /\ posted' = Append(posted,
                 sendMessageRequest(messageOf(path, args), senderOptions.targetId,
                                    JsUndefined))
            /\ promises' = [promises EXCEPT ![nextId] = Pending]
            /\ UNCHANGED <<pendingRequests, timers>>
       ELSE /\ lastError' = lastError
            /\ timers' = timers \cup {[id |-> Uuid(nextId), delay |-> timeout]}
            /\ pendingRequests' = pendingRequests \cup {Uuid(nextId)}
            /\ IF portState = "open"
                 THEN /\ posted' = Append(posted, portRequestOf(Uuid(nextId), path, args))
                      /\ promises' = [promises EXCEPT ![nextId] = Pending]
                 ELSE /\ posted' = posted
                      /\ promises' = [promises EXCEPT ![nextId] = Rejected(PostError)]
  /\ UNCHANGED <<senderKind, senderOptions, timeout, connected, closedIntentionally,
                 portState, onErrorCalls, portListeners>>
  /\ SenderFrame

\* sendMessageTo(targetId, path, ...payload) of the one-time sender
sendMessageTo(targetId, path, args) ==
  /\ senderKind = "message"
  /\ nextId <= MaxRequests
  /\ nextId' = nextId + 1
  /\ calls' = [calls EXCEPT ![nextId] = SenderCall(path, args)]
  /\ lastError' = setMessageError(JsUndefined)
  /\ posted' = Append(posted,
       sendMessageRequest(messageOf(path, args), targetId, JsUndefined))
  /\ promises' = [promises EXCEPT ![nextId] = Pending]
  /\ UNCHANGED <<senderKind, senderOptions, timeout, connected, closedIntentionally,
                 portState, pendingRequests, timers, onErrorCalls, portListeners>>
  /\ SenderFrame

\* the transport promise of a one-time request settles and
\* handleMessageResponse runs with the options sendMessageRequest was given
transportSettles(n, outcome) ==
  /\ senderKind = "message"
  /\ promises[n] = Pending
  /\ LET r == handleMessageResponse(outcome, posted[n].options)
     IN  /\ promises' = [promises EXCEPT ![n] = r.promise]
         /\ onErrorCalls' = onErrorCalls \o r.onError
  /\ calls' = [calls EXCEPT ![n].outcome = outcome]
  /\ UNCHANGED <<senderKind, senderOptions, timeout, connected, closedIntentionally,
                 portState, pendingRequests, timers, posted, nextId, portListeners,
                 lastError>>
  /\ SenderFrame

\* a response arrives on the port: onMessage runs if it is still listening
portMessage(response) ==
  /\ senderKind = "port"
  /\ IF "onMessage" \in portListeners /\ response.id \in pendingRequests
       THEN /\ timers' = {t \in timers : t.id # response.id}
            /\ promises' = [promises EXCEPT ![CallOf(response.id)] =
                 settlePromise(@, IF "error" \in DOMAIN response
                             THEN Rejected(response.error)
                             ELSE Fulfilled(response.data))]
            /\ calls' = [calls EXCEPT ![CallOf(response.id)].callbacks = @ + 1]
            /\ pendingRequests' = deletePending(pendingRequests, response.id)
       ELSE UNCHANGED <<timers, promises, calls, pendingRequests>>
  /\ UNCHANGED <<senderKind, senderOptions, timeout, connected, closedIntentionally,
                 portState, posted, onErrorCalls, nextId, portListeners, lastError>>
  /\ SenderFrame

\* onDisconnect of the port sender: the other end went away, or close()
\* was called and the browser reports the disconnect here as well
onDisconnect(runtimeError) ==
  /\ senderKind = "port"
  /\ "onDisconnect" \in portListeners
  /\ portState = "open" \/ closedIntentionally
  /\ connected' = FALSE
  /\ portListeners' = portListeners \ {"onMessage", "onDisconnect"}
  /\ portState' = "closed"
  /\ LET error == disconnectError(closedIntentionally, runtimeError)
     IN  /\ onErrorCalls' = IF ~closedIntentionally /\ senderOptions.onError
                              THEN Append(onErrorCalls, error)
                              ELSE onErrorCalls
         /\ promises' = [n \in 1..MaxRequests |->
              IF Uuid(n) \in pendingRequests
                THEN settlePromise(promises[n],
                       Rejected(rejectionOnDisconnect(closedIntentionally, error)))
                ELSE promises[n]]
  /\ calls' = [n \in 1..MaxRequests |->
       IF Uuid(n) \in pendingRequests
         THEN [calls[n] EXCEPT !.callbacks = @ + 1]
         ELSE calls[n]]
  /\ timers' = {t \in timers : t.id \notin pendingRequests}
  /\ pendingRequests' = {}
  /\ UNCHANGED <<senderKind, senderOptions, timeout, closedIntentionally,
                 posted, nextId, lastError>>
  /\ SenderFrame

\* close(): closedIntentionally = true; port.disconnect()
close ==
  /\ senderKind = "port"
  /\ closedIntentionally' = TRUE
  /\ portState' = "closed"
  /\ UNCHANGED <<senderKind, senderOptions, timeout, connected, pendingRequests,
                 timers, promises, calls, posted, onErrorCalls, nextId,
                 portListeners, lastError>>
  /\ SenderFrame

\* the timer of a request fires
timeoutFires(id) ==
  /\ senderKind = "port"
  /\ \E t \in timers : t.id = id
  /\ timers' = {t \in timers : t.id # id}
  /\ pendingRequests' = pendingRequests \ {id}
  /\ promises' = [promises EXCEPT ![CallOf(id)] =
       timeoutRejects(@, calls[CallOf(id)].path)]
  /\ UNCHANGED <<senderKind, senderOptions, timeout, connected, closedIntentionally,
                 portState, calls, posted, onErrorCalls, nextId, portListeners,
                 lastError>>
  /\ SenderFrame

NextSender ==
  \/ \E opts \in MessageSenderOptions : createMessageSender(opts)
  \/ \E opts \in PortSenderOptions : createPortSender(opts)
  \/ \E c \in SenderCalls : sendMessage(c[1], c[2])
  \/ \E c \in SenderCalls : sendMessageTo(JsString(<<"ext">>), c[1], c[2])
  \/ \E n \in 1..MaxRequests : \E outcome \in TransportOutcomes :
       transportSettles(n, outcome)
  \/ \E response \in PortResponses : portMessage(response)
  \/ \E runtimeError \in {JsUndefined, LastError} : onDisconnect(runtimeError)
  \/ \E type \in MessageErrorTypes : setMessageErrorCall(type)
  \/ close
  \/ \E n \in 1..MaxRequests : timeoutFires(Uuid(n))

\* a timer that was set and not cleared fires
SpecSender ==
  /\ InitSender
  /\ [][NextSender]_vars
  /\ \A n \in 1..MaxRequests : WF_vars(timeoutFires(Uuid(n)))

\* C21 Virtual module resolution: resolveId(id) is '\0' + moduleName exactly
\* when id is the configured module name and nothing otherwise; load(id) is
\* the builder's getVirtualModuleContent() exactly when id is that internal
\* id and nothing otherwise; so load(resolveId(moduleName)) is the builder's
\* current content
C21_VirtualModuleResolution ==
  /\ \A moduleName \in ModuleNames : \A id \in Ids :
       resolveId(moduleName, id)
         = IF id = moduleName THEN JsString(<<NUL>> \o moduleName) ELSE JsUndefined
  /\ state # "uninitialized" =>
       /\ \A moduleName \in ModuleNames : \A id \in Ids \ {<<NUL>> \o moduleName} :
            loadReturn(moduleName, Builder, id) = JsUndefined
       /\ loadReturn(DefaultModuleName, Builder,
                     resolveId(DefaultModuleName, DefaultModuleName).chars)
            = JsString(IF fresh THEN cachedText ELSE Render(table))

\* the module has been loaded by its internal id: the text is there, and the
\* module name itself loads nothing
C21_Witness ==
  /\ state # "uninitialized"
  /\ Idle
  /\ Len(table) > 0
  /\ fresh
  /\ loadReturn(DefaultModuleName, Builder,
                resolveId(DefaultModuleName, DefaultModuleName).chars)
       = JsString(cachedText)
  /\ loadReturn(DefaultModuleName, Builder, DefaultModuleName) = JsUndefined
  /\ resolveId(DefaultModuleName, MODULE_ID(DefaultModuleName)) = JsUndefined

\* C22 Enabled by default: a router created with enabled true or left
\* unspecified is listening right after its creation, before any call of
\* enable() or disable() changed anything: its listener is registered
C22_ListeningAfterCreation ==
  (/\ routerKind # "none"
   /\ options.enabled \in {JsUndefined, JsTrue}
   /\ lastChange = "none")
    => listeners = 1

\* the reply a failing handler owes the requester
OwedError == ErrorResponse(requestId(message), HandlerError)

\* C23 Handler errors are reported: once a handler that throws or whose
\* promise rejects has run to its end for a request, sendResponse has been
\* called with a response carrying the error, and the id of a port request
C23_HandlerErrorsReported ==
  (/\ handled = "local"
   /\ Lookup(routerRoutes, message.path) \in {"throws", "rejects"}
   /\ handlerPromise # "rejects")
    => \E i \in 1..Len(responses) : responses[i] = OwedError

\* a pattern ending in '*' matches the paths that start with the rest of
\* it; any other pattern matches the identical path only
PatternMatches(pattern, path) ==
  IF pattern # <<>> /\ pattern[Len(pattern)] = "*"
    THEN \E k \in 0..Len(path) :
           SubSeq(path, 1, k) = SubSeq(pattern, 1, Len(pattern) - 1)
    ELSE pattern = path

\* the paths the routes object itself defines a handler for
LocalPaths == DOMAIN routerRoutes

ProxyCovers(path) ==
  \/ options.proxy = JsTrue
  \/ /\ options.proxy.type = "array"
     /\ \E i \in 1..Len(options.proxy.items) : PatternMatches(options.proxy.items[i], path)

\* C25 Proxying decision: an incoming one-time message is forwarded exactly
\* when its path has no local handler and proxy is true or one of its
\* patterns matches the path; a path with a local handler is handled
\* locally, and without proxy nothing is forwarded
C25_ProxyDecision ==
  (routerKind = "message" /\ message # NoMessage) =>
    /\ (forwarded # <<>>) <=> (message.path \notin LocalPaths /\ ProxyCovers(message.path))
    /\ message.path \in LocalPaths => (handled = "local" /\ forwarded = <<>>)
    /\ options.proxy = JsUndefined => forwarded = <<>>

C24_OnErrorInvoked ==
  (senderKind = "message" /\ senderOptions.onError) =>
    \A n \in 1..MaxRequests :
      (promises[n].state = "fulfilled" /\ calls[n].outcome.kind \in {"error", "rejected"})
        => \E i \in 1..Len(onErrorCalls) : onErrorCalls[i] = calls[n].outcome.error

\* the promise of call n is settled
IsSettled(n) == promises[n].state \in {"fulfilled", "rejected"}

\* C26 Port request timeout: every promise returned by sendMessage of a port
\* sender is eventually settled; when a request's timer fires while the port
\* is still connected (no matching response cleared the timer, no disconnect
\* happened), the promise is rejected with 'Message timeout' and the id is
\* removed from pendingRequests; the timer's delay is 30000 unless
\* options.timeout says otherwise
C26_PortRequestTimeout ==
  /\ \A n \in 1..MaxRequests :
       (senderKind = "port" /\ promises[n] = Pending) ~> IsSettled(n)
  /\ [][\A n \in 1..MaxRequests :
          (timeoutFires(Uuid(n)) /\ portState = "open") =>
            /\ promises[n] = Pending
            /\ promises'[n] = Rejected(JsError(<<"Message timeout: ">> \o calls[n].path))
            /\ Uuid(n) \notin pendingRequests']_vars
  /\ [](senderKind = "port" =>
          \A t \in timers :
            t.delay = IF senderOptions.timeout = JsUndefined
                        THEN 30000
                        ELSE senderOptions.timeout.n)

\* a request of a connected port sender with the default timeout has been
\* rejected by its timer and is no longer pending
C26_Witness ==
  /\ senderKind = "port"
  /\ senderOptions.timeout = JsUndefined
  /\ portState = "open"
  /\ \E n \in 1..MaxRequests :
       /\ promises[n] = Rejected(TimeoutError(calls[n].path))
       /\ Uuid(n) \notin pendingRequests
       /\ \A t \in timers : t.id # Uuid(n)

\* C27 Payload delivery over ports: the payload field of every request a port
\* sender posted, and so the first argument the route handler is called
\* with, equals the payload value the caller passed (undefined when
\* omitted), the value a one-time sender puts in its request for that call
C27_PortPayloadDelivered ==
  senderKind = "port" =>
    \A i \in 1..Len(posted) :
      LET call == calls[CallOf(posted[i].id)]
      IN  /\ posted[i].payload = first(call.args)
          /\ posted[i].payload = messageOf(call.path, call.args).payload
          /\ executeMessageHandler("returns", posted[i]).sent[1].data = first(call.args)

\* the own properties of lit the extractor is to emit a route for: method
\* shorthands, and key/value properties whose value is an arrow function
\* or a function expression
RouteProps(lit) ==
  {i \in 1..Len(lit.props) :
     \/ lit.props[i].kind = "MethodDeclaration"
     \/ /\ lit.props[i].kind = "PropertyAssignment"
        /\ lit.props[i].value.kind \in {"ArrowFunction", "FunctionExpression"}}

\* the k-th of them in declaration order
NthRouteProp(lit, k) ==
  CHOOSE i \in RouteProps(lit) : Cardinality({j \in RouteProps(lit) : j < i}) = k - 1

\* C30 The extractor emits exactly one RouteInfo, in declaration order, for
\* each own property that is a method shorthand or a key/value property with
\* an arrow function or function expression as value; every other property
\* (a value that is no function, a spread, any other kind) emits nothing
\* and does not stop the extraction of the properties after it
C30_OneRoutePerFunctionProperty ==
  (pc = "extracted" /\ isObjectLiteralExpression(node)) =>
    /\ Len(result.routes) = Cardinality(RouteProps(node))
    /\ \A k \in 1..Len(result.routes) :
         LET prop == node.props[NthRouteProp(node, k)]
         IN  /\ result.routes[k].path = StripQuotes(prop.key)
             /\ result.routes[k].returnType = prop.value.ret
             /\ result.routes[k].paramText
                  = IF prop.value.params = <<>> THEN "" ELSE prop.value.params[1]

\* { '': fn, [k]: fn, n: 42, s, w: fn }: the route of w is emitted after the
\* number n and the shorthand s were passed over
C30_Witness ==
  /\ pc = "extracted"
  /\ node = LE
  /\ Len(result.routes) = 3
  /\ result.routes[3].path = <<"w">>

\* what an expression resolves to when it is resolved on its own
OnItsOwn(expr) == resolveVariableToObjectLiteral(expr, sourceFile).node

\* the variable declarations of the name that have an initializer
DeclaredWithInitializer(varName) ==
  {i \in 1..Len(sourceFile.vars) :
     sourceFile.vars[i].name = varName /\ sourceFile.vars[i].initializer # undefined}

\* C29 Identifier resolution order: when a variable declaration with the
\* identifier's name and an initializer exists, the identifier resolves to
\* what that initializer resolves to and functions are not consulted;
\* otherwise it resolves to what the first return expression, in source
\* order, of the function of that name resolves to among those that resolve
\* to an object literal when resolved on their own
C29_IdentifierResolutionOrder ==
  (pc = "resolved" /\ isIdentifier(node)) =>
    LET returns == returnExprs(sourceFile.funcs, 1, node.name)
        resolving == {i \in 1..Len(returns) :
                        returns[i] # undefined /\ OnItsOwn(returns[i]) # undefined}
    IN  IF DeclaredWithInitializer(node.name) # {}
          THEN resolved.node = OnItsOwn(sourceFile.vars[Min(DeclaredWithInitializer(node.name))].initializer)
        ELSE IF resolving # {}
          THEN resolved.node = OnItsOwn(returns[Min(resolving)])
        ELSE resolved.node = undefined

\* C31 Each port request is settled at most once: under every interleaving
\* of the matching response, the timer, a disconnect and close(), the resolve
\* and reject stored for a request id are invoked at most once, a promise
\* once settled keeps its outcome, and a response that arrives after the
\* timeout or after the disconnect, or with an id that is not pending,
\* changes nothing
C31_SettledAtMostOnce ==
  [][senderKind = "port" =>
       /\ \A n \in 1..(nextId' - 1) :
            /\ calls'[n].callbacks <= 1
            /\ IsSettled(n) => promises'[n] = promises[n]
       /\ \A response \in PortResponses :
            (portMessage(response) /\ (response.id \notin pendingRequests \/ ~connected))
              => UNCHANGED <<promises, pendingRequests, timers, calls, onErrorCalls>>]_vars

\* one request was resolved by its response, whose stored callback ran once,
\* and another was rejected by its timer, whose stored callbacks never ran
C31_Witness ==
  /\ senderKind = "port"
  /\ \E n, m \in 1..MaxRequests :
       /\ promises[n].state = "fulfilled"
       /\ calls[n].callbacks = 1
       /\ promises[m] = Rejected(TimeoutError(calls[m].path))
       /\ calls[m].callbacks = 0
       /\ pendingRequests = {}

\* a timeout timer is armed exactly for the ids in pendingRequests
TimersMatchPending == {t.id : t \in timers} = pendingRequests

\* C32 Pending-request cleanup: in every reachable state of a port sender,
\* sendMessage after a disconnect included, pendingRequests contains an id
\* exactly when that request's promise is still unsettled, and a timeout
\* timer is armed exactly for the ids in pendingRequests
C32_PendingCleanup ==
  senderKind = "port" =>
    /\ \A n \in 1..(nextId - 1) :
         Uuid(n) \in pendingRequests <=> promises[n] = Pending
    /\ TimersMatchPending

\* C33 Disconnect handling: when the port's disconnect event fires, connected
\* becomes false and stays false, the message and disconnect listeners are
\* removed, every pending request is rejected and pendingRequests is emptied;
\* onError is invoked if and only if close() did not precede the disconnect,
\* and the requests pending at an intentional close are rejected with the
\* 'Port disconnected' error
C33_DisconnectHandling ==
  /\ [][(\E runtimeError \in {JsUndefined, LastError} : onDisconnect(runtimeError)) =>
          /\ ~connected'
          /\ portListeners' = {}
          /\ pendingRequests' = {}
          /\ \A n \in 1..(nextId - 1) :
               /\ Uuid(n) \in pendingRequests => promises'[n].state = "rejected"
               /\ (closedIntentionally /\ promises[n] = Pending)
                    => promises'[n] = Rejected(JsError(<<"Port disconnected">>))
          /\ IF senderOptions.onError /\ ~closedIntentionally
               THEN Len(onErrorCalls') = Len(onErrorCalls) + 1
               ELSE onErrorCalls' = onErrorCalls]_vars
  /\ [][(senderKind = "port" /\ ~connected) => ~connected']_vars

\* a port sender with an onError callback was closed with a request pending
\* and then saw the disconnect: the request is rejected with 'Port
\* disconnected', the listeners are gone and onError was not called
C33_Witness ==
  /\ senderKind = "port"
  /\ senderOptions.onError
  /\ closedIntentionally
  /\ ~connected
  /\ portListeners = {}
  /\ pendingRequests = {}
  /\ onErrorCalls = <<>>
  /\ \E n \in 1..MaxRequests : promises[n] = Rejected(DisconnectError)

\* C34 The one-time send never rejects: whatever the transport promise does,
\* the promise of sendMessageRequest / handleMessageResponse is fulfilled,
\* with response.data when the response carries no error and with undefined
\* when the response carries an error or the transport promise rejects, and
\* the recorded last message error is cleared at the start of every send
C34_OneTimeSendNeverRejects ==
  [][senderKind = "message" =>
       /\ \A n \in 1..MaxRequests :
            /\ promises'[n].state # "rejected"
            /\ \A outcome \in TransportOutcomes :
                 transportSettles(n, outcome) =>
                   promises'[n] = IF outcome.kind = "data"
                                    THEN Fulfilled(outcome.data)
                                    ELSE Fulfilled(JsUndefined)
       /\ nextId' # nextId => lastError' = JsUndefined]_vars

\* no message error is recorded after two sends: the transport promise of
\* one rejected and its own promise is fulfilled with undefined, the other
\* got a response with data and is fulfilled with that data
C34_Witness ==
  /\ senderKind = "message"
  /\ lastError = JsUndefined
  /\ \E n, m \in 1..(nextId - 1) :
       /\ calls[n].outcome.kind = "rejected"
       /\ promises[n] = Fulfilled(JsUndefined)
       /\ calls[m].outcome.kind = "data"
       /\ promises[m] = Fulfilled(calls[m].outcome.data)

\* the response a handler's value is owed: { id, data } with the id of a
\* request that has one, { data } alone for a request without
OwedData(request, data) ==
  IF "id" \in DOMAIN request
    THEN [id |-> request.id, data |-> data]
    ELSE [data |-> data]

\* C35 Response shape and correlation: for a handler that returns a value or
\* a promise that resolves, executeMessageHandler calls sendResponse exactly
\* once, before returning for a synchronous handler and after the resolution
\* (having returned true) for a promise, with { id, data } carrying the
\* request's id when the request has an id and with { data } alone when it
\* has none
C35_ResponseShape ==
  handled = "local" =>
    LET handler == Lookup(routerRoutes, message.path)
        call == executeMessageHandler(handler, message)
        owed == OwedData(message, returned(handler, message.payload))
    IN  /\ handler \in {"returns", "toString"} =>
             /\ call.sent = <<owed>>
             /\ call.result = JsUndefined
             /\ responses = <<owed>>
        /\ handler = "resolves" =>
             /\ call.sent = <<>>
             /\ call.result = JsTrue
             /\ handlerPromise = "resolves" => responses = <<>>
             /\ handlerPromise = "resolved" => responses = <<owed>>

====
